---- MODULE Spec2Model ----
(***************************************************************************)
(* A model of the s2fft sampling / Wigner-transform layer.                 *)
(*                                                                         *)
(* The program is a library of functions.  Its state is the session of     *)
(* calls made so far: every call records the function, its parameters, the *)
(* array it was given, what it returned (or the exception it raised) and   *)
(* the contents of the argument array after the call (numpy arrays are     *)
(* mutable and slices are views).  A later call may be given the array the *)
(* previous call returned, which is how round trips are exercised.         *)
(*                                                                         *)
(* numpy arrays are records [shape, data] with data in C (row-major)       *)
(* order.  complex128 entries are Gaussian integers <<re, im>>.            *)
(***************************************************************************)
EXTENDS Integers, Sequences, FiniteSets, TLC

VARIABLES calls

vars == <<calls>>

(***************************************************************************)
(* Bounds of the exploration.                                              *)
(***************************************************************************)
MaxL == 2

MaxN == 2

MaxCalls == 2

MaxNside == 1

(***************************************************************************)
(* Complex numbers and arrays.                                             *)
(***************************************************************************)
CZero == <<0, 0>>

CAdd(a, b) == <<a[1] + b[1], a[2] + b[2]>>

CScale(k, a) == <<k * a[1], k * a[2]>>

\* The non-zero entries the input arrays are built from.
NZVals == {<<1, 0>>, <<0, 1>>}

Vals == {CZero} \cup NZVals

RECURSIVE Prod(_)
Prod(shape) == IF shape = <<>> THEN 1 ELSE Head(shape) * Prod(Tail(shape))

Arr(shape, data) == [shape |-> shape, data |-> data]

Zeros(shape) == Arr(shape, [i \in 1..Prod(shape) |-> CZero])

NoArr == Arr(<<0>>, <<>>)

\* Offset (1-based) of element [i, j, k] of a 3-dimensional array.
Off3(shape, i, j, k) == (i * shape[2] + j) * shape[3] + k + 1

In3(shape, i, j, k) ==
    /\ 0 <= i /\ i < shape[1]
    /\ 0 <= j /\ j < shape[2]
    /\ 0 <= k /\ k < shape[3]

(***************************************************************************)
(* Results of a call.  status is "ok" or the Python exception type; why    *)
(* names the raise site; tuple is a returned int or tuple of ints; value a *)
(* returned array; impl the implementation a dispatcher ran; warned tells  *)
(* whether warnings.warn was called.                                       *)
(***************************************************************************)
Res(status, why, tuple, value) ==
    [status |-> status, why |-> why, tuple |-> tuple, value |-> value,
     impl |-> "none", warned |-> FALSE]

OkTuple(t) == Res("ok", "", t, NoArr)

OkArr(a) == Res("ok", "", <<>>, a)

Raise(exc, why) == Res(exc, why, <<>>, NoArr)

(***************************************************************************)
(* Sampling strings, and str.lower() on them.                              *)
(***************************************************************************)
Samplings == {"mw", "mwss", "dh", "healpix", "MW", "foo"}

Lower(s) == IF s = "MW" THEN "mw" ELSE s

(***************************************************************************)
(* s2fft/wigner/samples.py                                                 *)
(***************************************************************************)
_nalpha(L, sampling) ==
    IF Lower(sampling) \in {"mw", "dh"} THEN OkTuple(<<2 * L - 1>>)
    ELSE IF Lower(sampling) = "mwss" THEN OkTuple(<<2 * L>>)
    ELSE Raise("ValueError", "sampling")

_nbeta(L, sampling) ==
    IF Lower(sampling) = "mw" THEN OkTuple(<<L>>)
    ELSE IF Lower(sampling) = "mwss" THEN OkTuple(<<L + 1>>)
    ELSE IF Lower(sampling) = "dh" THEN OkTuple(<<2 * L>>)
    ELSE Raise("ValueError", "sampling")

_ngamma(N) == 2 * N - 1

\* f_shape(L, N, sampling="mw"): the membership test is case sensitive.
f_shape(L, N, sampling) ==
    IF sampling \in {"mw", "mwss", "dh"}
    THEN OkTuple(<<_nbeta(L, sampling).tuple[1],
                   _nalpha(L, sampling).tuple[1], _ngamma(N)>>)
    ELSE Raise("ValueError", "sampling")

\* A call of f_shape with the positional arguments args: Python binds at
\* most the three parameters (L, N, sampling) and raises TypeError otherwise.
f_shape_call(args) ==
    IF Len(args) < 2 \/ Len(args) > 3 THEN Raise("TypeError", "f_shape arity")
    ELSE f_shape(args[1], args[2], IF Len(args) = 3 THEN args[3] ELSE "mw")

flmn_shape(L, N) == <<L, 2 * L - 1, 2 * N - 1>>

flmn_shape_1d(L, N) == (2 * N - 1) * L * L

elmn2ind_noel(el, m, n, L, N) == (N - 1 + n) * L * L + el * el + m

elmn2ind(el, m, n, L, N) ==
    LET n_offset == (N - 1 + n) * L * L
        el_offset == el * el
    IN n_offset + el_offset + el + m

\* The triples (el, m, n) in the order the conversion loops visit them:
\* for n in range(-N+1, N): for el in range(L): for m in range(-el, el+1).
MRange(el, n) == [i \in 1..(2 * el + 1) |-> <<el, i - 1 - el, n>>]

RECURSIVE ElRange(_, _, _)
ElRange(el, L, n) ==
    IF el >= L THEN <<>> ELSE MRange(el, n) \o ElRange(el + 1, L, n)

RECURSIVE LoopOrder(_, _, _)
LoopOrder(n, L, N) ==
    IF n >= N THEN <<>> ELSE ElRange(0, L, n) \o LoopOrder(n + 1, L, N)

\* Python's index rule on an axis of length len.
PyOk(i, len) == -len <= i /\ i < len

PyIdx(i, len) == IF i < 0 THEN i + len ELSE i

\* The loop of flmn_3d_to_1d from position p of the loop order on, on the
\* output built so far; "IndexError" when an index leaves either array.
RECURSIVE Loop3dTo1d(_, _, _, _, _, _)
Loop3dTo1d(order, p, out, flmn_3d, L, N) ==
    IF p > Len(order) THEN OkArr(Arr(<<Len(out)>>, out))
    ELSE LET el == order[p][1]
             m == order[p][2]
             n == order[p][3]
             dst == elmn2ind(el, m, n, L, N)
         IN IF ~In3(flmn_3d.shape, el, L - 1 + m, N - 1 + n)
               \/ ~PyOk(dst, Len(out))
            THEN Raise("IndexError", "index")
            ELSE Loop3dTo1d(order, p + 1,
                    [out EXCEPT ![PyIdx(dst, Len(out)) + 1] =
                        flmn_3d.data[Off3(flmn_3d.shape, el, L - 1 + m, N - 1 + n)]],
                    flmn_3d, L, N)

flmn_3d_to_1d_nocheck(flmn_3d, L, N) ==
    IF Len(flmn_3d.shape) = 1 THEN OkArr(flmn_3d)
    ELSE IF Len(flmn_3d.shape) # 3
    THEN Raise("ValueError", "cannot convert to 1D")
    ELSE Loop3dTo1d(LoopOrder(-N + 1, L, N), 1,
                    Zeros(<<flmn_shape_1d(L, N)>>).data, flmn_3d, L, N)

flmn_3d_to_1d(flmn_3d, L, N) ==
    IF Len(flmn_3d.shape) = 1 THEN Raise("ValueError", "already 1D")
    ELSE IF Len(flmn_3d.shape) # 3
    THEN Raise("ValueError", "cannot convert to 1D")
    ELSE Loop3dTo1d(LoopOrder(-N + 1, L, N), 1,
                    Zeros(<<flmn_shape_1d(L, N)>>).data, flmn_3d, L, N)

RECURSIVE Loop1dTo3d(_, _, _, _, _, _)
Loop1dTo3d(order, p, out, flmn_1d, L, N) ==
    IF p > Len(order) THEN OkArr(out)
    ELSE LET el == order[p][1]
             m == order[p][2]
             n == order[p][3]
             src == elmn2ind(el, m, n, L, N)
         IN IF ~In3(out.shape, el, L - 1 + m, N - 1 + n)
               \/ ~PyOk(src, Len(flmn_1d.data))
            THEN Raise("IndexError", "index")
            ELSE Loop1dTo3d(order, p + 1,
                    [out EXCEPT !.data[Off3(out.shape, el, L - 1 + m, N - 1 + n)] =
                        flmn_1d.data[PyIdx(src, Len(flmn_1d.data)) + 1]],
                    flmn_1d, L, N)

flmn_1d_to_3d_nlm(flmn_1d, L, N) ==
    IF Len(flmn_1d.shape) = 3 THEN Raise("ValueError", "already 3D")
    ELSE IF Len(flmn_1d.shape) # 1
    THEN Raise("ValueError", "cannot convert to 3D")
    ELSE Loop1dTo3d(LoopOrder(-N + 1, L, N), 1,
                    Zeros(<<2 * N - 1, L, 2 * L - 1>>), flmn_1d, L, N)

flmn_1d_to_3d(flmn_1d, L, N) ==
    IF Len(flmn_1d.shape) = 3 THEN Raise("ValueError", "already 3D")
    ELSE IF Len(flmn_1d.shape) # 1
    THEN Raise("ValueError", "cannot convert to 3D")
    ELSE Loop1dTo3d(LoopOrder(-N + 1, L, N), 1,
                    Zeros(flmn_shape(L, N)), flmn_1d, L, N)

(***************************************************************************)
(* s2fft/healpix_ffts.py                                                   *)
(*                                                                         *)
(* fm is a 1-dimensional array, here the sequence of its entries.  A basic *)
(* slice fm[a:b] is a view: writing the slice writes fm.                   *)
(***************************************************************************)
Min(a, b) == IF a < b THEN a ELSE b

Max(a, b) == IF a > b THEN a ELSE b

Arr1(data) == Arr(<<Len(data)>>, data)

\* += on an entry: complex addition, and a formal sum when an operand is a
\* formal coefficient (a sequence of length other than 2).
VAdd(a, b) ==
    IF Len(a) = 2 /\ Len(b) = 2 THEN CAdd(a, b) ELSE <<"sum", a, b>>

\* The first while loop of spectral_folding from idx on; fm is the array as
\* written so far, slen the length of the view ftm_slice = fm[start:stop].
RECURSIVE FoldLower(_, _, _, _, _)
FoldLower(fm, idx, start, slen, nphi) ==
    IF start - idx < 0 THEN [status |-> "ok", fm |-> fm]
    ELSE LET j == (-idx) % nphi
         IN IF j >= slen \/ start - idx >= Len(fm)
            THEN [status |-> "IndexError", fm |-> fm]
            ELSE FoldLower(
                    [fm EXCEPT ![start + j + 1] =
                        VAdd(fm[start + j + 1], fm[start - idx + 1])],
                    idx + 1, start, slen, nphi)

RECURSIVE FoldUpper(_, _, _, _, _)
FoldUpper(fm, idx, start, stop, nphi) ==
    IF stop + idx >= Len(fm) THEN [status |-> "ok", fm |-> fm]
    ELSE LET j == idx % nphi
         IN FoldUpper(
               [fm EXCEPT ![start + j + 1] =
                   VAdd(fm[start + j + 1], fm[stop + idx + 1])],
               idx + 1, start, stop, nphi)

\* spectral_folding(fm, nphi, L): the result and fm as the call leaves it.
spectral_folding(fm, nphi, L) ==
    IF ~(nphi <= 2 * L)
    THEN [ret |-> Raise("AssertionError", "nphi <= 2 * L"), after |-> fm]
    ELSE LET slice_start == L - nphi \div 2
             slice_stop == slice_start + nphi
             slen == Max(0, Min(slice_stop, Len(fm)) - Min(slice_start, Len(fm)))
             lower == FoldLower(fm, 1, slice_start, slen, nphi)
             upper == FoldUpper(lower.fm, 0, slice_start, slice_stop, nphi)
         IN IF lower.status # "ok"
            THEN [ret |-> Raise(lower.status, "index"), after |-> lower.fm]
            ELSE [ret |-> OkArr(Arr1(SubSeq(upper.fm, slice_start + 1,
                                            slice_start + slen))),
                  after |-> upper.fm]

\* A mutation of ExtendLower: the bins below the window are left as they are.
ExtendLower_skipped(fm_full, fm, idx, start, nphi) ==
    [status |-> "ok", fm_full |-> fm_full]

\* The first while loop of spectral_periodic_extension from idx on.
RECURSIVE ExtendLower(_, _, _, _, _)
ExtendLower(fm_full, fm, idx, start, nphi) ==
    IF start - idx < 0 THEN [status |-> "ok", fm_full |-> fm_full]
    ELSE LET j == (-idx) % nphi
         IN IF j >= Len(fm)
            THEN [status |-> "IndexError", fm_full |-> fm_full]
            ELSE ExtendLower([fm_full EXCEPT ![start - idx + 1] = fm[j + 1]],
                             fm, idx + 1, start, nphi)

RECURSIVE ExtendUpper(_, _, _, _, _)
ExtendUpper(fm_full, fm, idx, stop, nphi) ==
    IF stop + idx >= Len(fm_full) THEN [status |-> "ok", fm_full |-> fm_full]
    ELSE LET j == idx % nphi
         IN IF j >= Len(fm)
            THEN [status |-> "IndexError", fm_full |-> fm_full]
            ELSE ExtendUpper([fm_full EXCEPT ![stop + idx + 1] = fm[j + 1]],
                             fm, idx + 1, stop, nphi)

spectral_periodic_extension_zeropad(fm, nphi, L) ==
    IF ~(nphi <= 2 * L) THEN Raise("AssertionError", "nphi <= 2 * L")
    ELSE IF Len(fm) # nphi /\ Len(fm) # 1 THEN Raise("ValueError", "broadcast")
    ELSE OkArr(Arr1([k \in 1..(2 * L) |->
                       IF L - nphi \div 2 < k /\ k <= L - nphi \div 2 + nphi
                       THEN (IF Len(fm) = 1 THEN fm[1]
                             ELSE fm[k - (L - nphi \div 2)])
                       ELSE CZero]))

\* spectral_periodic_extension(fm, nphi, L).  The slice assignment
\* fm_full[start:stop] = fm broadcasts an fm of length 1 and otherwise needs
\* len(fm) = nphi.
spectral_periodic_extension(fm, nphi, L) ==
    IF ~(nphi <= 2 * L) THEN Raise("AssertionError", "nphi <= 2 * L")
    ELSE LET slice_start == L - nphi \div 2
             slice_stop == slice_start + nphi
             zeros == [k \in 1..(2 * L) |-> CZero]
             placed == [k \in 1..(2 * L) |->
                          IF slice_start < k /\ k <= slice_stop
                          THEN (IF Len(fm) = 1 THEN fm[1] ELSE fm[k - slice_start])
                          ELSE zeros[k]]
         IN IF Len(fm) # nphi /\ Len(fm) # 1
            THEN Raise("ValueError", "broadcast")
            ELSE LET lower == ExtendLower(placed, fm, 1, slice_start, nphi)
                     upper == ExtendUpper(lower.fm_full, fm, 0, slice_stop, nphi)
                 IN IF lower.status # "ok" THEN Raise(lower.status, "index")
                    ELSE IF upper.status # "ok" THEN Raise(upper.status, "index")
                    ELSE OkArr(Arr1(upper.fm_full))

(***************************************************************************)
(* The spin-spherical transforms (s2fft.transform, s2fft.jax_transforms.   *)
(* spin_spherical) that the Wigner transforms call once per order n.       *)
(*                                                                         *)
(* Their coefficients are formal: the coefficient (el, m) that the forward *)
(* transform of order n returns is the indeterminate Term(n, el, m, ...),  *)
(* and an array entry computed from them is a formal sum, the sequence of  *)
(* its terms (<<>> is zero).  sgn, conj and norm record the sign, the      *)
(* conjugation and the degree of the normalisation factor applied since.  *)
(***************************************************************************)
Term(n, el, m, src, fft) ==
    [n |-> n, el |-> el, m |-> m, src |-> src, fft |-> fft,
     sgn |-> 1, conj |-> FALSE, norm |-> -1]

\* (-1) ** k
Pow1(k) == IF k % 2 = 0 THEN 1 ELSE -1

Abs(k) == IF k < 0 THEN -k ELSE k

ESign(k, e) == [i \in 1..Len(e) |-> [e[i] EXCEPT !.sgn = k * @]]

EConj(e) == [i \in 1..Len(e) |-> [e[i] EXCEPT !.conj = ~@]]

ENorm(l, e) == [i \in 1..Len(e) |-> [e[i] EXCEPT !.norm = l]]

\* The schemes the sphere transforms sample on, and their pixel shapes.
SphereSamplings == {"mw", "mwss", "dh", "healpix"}

SphereShape(L, sampling, nside) ==
    IF Lower(sampling) = "mw" THEN <<L, 2 * L - 1>>
    ELSE IF Lower(sampling) = "mwss" THEN <<L + 1, 2 * L>>
    ELSE IF Lower(sampling) = "dh" THEN <<2 * L, 2 * L - 1>>
    ELSE <<12 * nside * nside>>

\* The forward spin transform of the slice src of the gamma spectrum, for
\* spin -n: an [L, 2L-1] array, zero for el < |n| and for |m| > el.
SpinForward(sliceShape, L, n, sampling, nside, src, fft) ==
    IF Lower(sampling) \notin SphereSamplings THEN Raise("ValueError", "sampling")
    ELSE IF sliceShape # SphereShape(L, sampling, nside)
    THEN Raise("ValueError", "pixel shape")
    ELSE OkArr(Arr(<<L, 2 * L - 1>>,
            [i \in 1..(L * (2 * L - 1)) |->
                LET el == (i - 1) \div (2 * L - 1)
                    m == ((i - 1) % (2 * L - 1)) - (L - 1)
                IN IF el >= Abs(n) /\ Abs(m) <= el
                   THEN <<Term(n, el, m, src, fft)>> ELSE <<>>]))

\* The inverse spin transform of slot N-1+n of the coefficients, for spin
\* -n: a pixel array whose content is the formal Synth(n).
SpinInverse(flmShape, L, n, sampling, nside) ==
    IF Lower(sampling) \notin SphereSamplings THEN Raise("ValueError", "sampling")
    ELSE IF flmShape # <<L, 2 * L - 1>> THEN Raise("ValueError", "flm shape")
    ELSE OkArr(Arr(SphereShape(L, sampling, nside),
                   <<[n |-> n, sgn |-> 1]>>))

(***************************************************************************)
(* s2fft/wigner/transform.py                                               *)
(***************************************************************************)
\* The loop of inverse from order n on: slots holds, per index of the
\* gamma axis, the formal content written there (<<>>: still zero).
RECURSIVE InverseLoop(_, _, _, _, _, _)
InverseLoop(n, slots, L, N, sampling, nside) ==
    IF n >= N THEN [status |-> "ok", why |-> "", slots |-> slots]
    ELSE LET r == SpinInverse(<<L, 2 * L - 1>>, L, n, sampling, nside)
         IN IF r.status # "ok"
            THEN [status |-> r.status, why |-> r.why, slots |-> slots]
            ELSE InverseLoop(n + 1,
                    [slots EXCEPT ![N - 1 + n + 1] =
                        <<[n |-> n, sgn |-> Pow1(n)]>>],
                    L, N, sampling, nside)

\* The pixel array inverse returns: the gamma-axis inverse FFT of the slots.
InverseResult(shape, slots, N, reality) ==
    OkArr([shape |-> shape, data |-> <<>>,
           fft |-> IF reality THEN "irfft" ELSE "ifft",
           slots |-> IF reality THEN SubSeq(slots, N, 2 * N - 1) ELSE slots])

\* inverse(flmn, L, N, L_lower, sampling, reality, nside)
transform_inverse(flmn, L, N, sampling, reality, nside) ==
    IF flmn.shape # flmn_shape(L, N)
    THEN Raise("AssertionError", "flmn.shape")
    ELSE LET shp == f_shape_call(<<L, N, sampling, nside>>)
         IN IF shp.status # "ok" THEN Raise(shp.status, shp.why)
            ELSE LET n_start_ind == IF reality THEN 0 ELSE -N + 1
                     loop == InverseLoop(n_start_ind,
                                [k \in 1..(2 * N - 1) |-> <<>>],
                                L, N, sampling, nside)
                 IN IF loop.status # "ok" THEN Raise(loop.status, loop.why)
                    ELSE InverseResult(shp.tuple, loop.slots, N, reality)

\* flmn[..., N-1-n] = conj(flip(flmn[..., N-1+n] * sgn * (-1)**n, axis=1))
\* on the data of an [L, 2L-1, 2N-1] array.
DeriveNegative(data, shape, L, N, n) ==
    [i \in 1..Len(data) |->
        LET el == (i - 1) \div (shape[2] * shape[3])
            j == ((i - 1) \div shape[3]) % shape[2]
            k == (i - 1) % shape[3]
            jf == shape[2] - 1 - j
            sgn == Pow1(Abs(jf - (L - 1)))
        IN IF k = N - 1 - n
           THEN EConj(ESign(sgn * Pow1(n), data[Off3(shape, el, jf, N - 1 + n)]))
           ELSE data[i]]

\* flmn[..., N-1+n] = (-1)**n * flm on the data of an [L, 2L-1, 2N-1] array.
WriteOrder(data, shape, N, n, flm) ==
    [i \in 1..Len(data) |->
        LET el == (i - 1) \div (shape[2] * shape[3])
            j == ((i - 1) \div shape[3]) % shape[2]
            k == (i - 1) % shape[3]
        IN IF k = N - 1 + n
           THEN ESign(Pow1(n), flm.data[el * flm.shape[2] + j + 1])
           ELSE data[i]]

\* The loop of forward from order n on.
RECURSIVE ForwardLoop(_, _, _, _, _, _, _, _, _)
ForwardLoop(n, data, shape, fshape, L, N, sampling, reality, nside) ==
    IF n >= N THEN [status |-> "ok", why |-> "", data |-> data]
    ELSE LET n_start_ind == IF reality THEN 0 ELSE -N + 1
             r == SpinForward(SubSeq(fshape, 1, Len(fshape) - 1), L, n,
                              sampling, nside, n - n_start_ind,
                              IF reality THEN "rfft" ELSE "fft")
         IN IF r.status # "ok"
            THEN [status |-> r.status, why |-> r.why, data |-> data]
            ELSE LET written == WriteOrder(data, shape, N, n, r.value)
                 IN ForwardLoop(n + 1,
                        IF reality /\ n # 0
                        THEN DeriveNegative(written, shape, L, N, n)
                        ELSE written,
                        shape, fshape, L, N, sampling, reality, nside)

\* np.einsum("ijk,i->ijk", flmn, np.sqrt(4 * np.pi / (2 * np.arange(L) + 1)))
ScaleByDegree(data, shape) ==
    [i \in 1..Len(data) |->
        ENorm((i - 1) \div (shape[2] * shape[3]), data[i])]

\* forward(f, L, N, L_lower, sampling, reality, nside)
transform_forward(f, L, N, sampling, reality, nside) ==
    LET shp == f_shape_call(<<L, N, sampling, nside>>)
    IN IF shp.status # "ok" THEN Raise(shp.status, shp.why)
       ELSE IF f.shape # shp.tuple THEN Raise("AssertionError", "f.shape")
       ELSE LET shape == flmn_shape(L, N)
                loop == ForwardLoop(IF reality THEN 0 ELSE -N + 1,
                            [i \in 1..Prod(shape) |-> <<>>], shape, f.shape,
                            L, N, sampling, reality, nside)
            IN IF loop.status # "ok" THEN Raise(loop.status, loop.why)
               ELSE OkArr(Arr(shape, ScaleByDegree(loop.data, shape)))

(***************************************************************************)
(* s2fft/jax_transforms/wigner.py                                          *)
(*                                                                         *)
(* Both implementations index the order on the LEADING axis (flmn[N-1+n],  *)
(* fban[N-1+n]) of arrays they allocate with samples.flmn_shape and        *)
(* samples.f_shape.  precomps is TRUE for a list of recursion coefficients *)
(* and FALSE for the default None.                                         *)
(***************************************************************************)
Tail2(shape) == SubSeq(shape, 2, Len(shape))

\* ax = -2 if sampling.lower() == "healpix" else -3
GammaAxis(sampling) == IF Lower(sampling) = "healpix" THEN -2 ELSE -3

\* Shape of np.fft.rfft / np.fft.fft of an array along axis ax (<<>> when
\* the array has no such axis).
FftShape(shape, ax, reality) ==
    IF Len(shape) < -ax THEN <<>>
    ELSE [d \in 1..Len(shape) |->
            IF d = Len(shape) + ax + 1 /\ reality
            THEN (shape[d] \div 2) + 1 ELSE shape[d]]

\* NumPy broadcasting of a 2-d value into a 2-d target.
Broadcastable(vshape, tshape) ==
    /\ Len(vshape) = 2 /\ Len(tshape) = 2
    /\ vshape[1] \in {tshape[1], 1}
    /\ vshape[2] \in {tshape[2], 1}

BEntry(v, a, b) ==
    v.data[(IF v.shape[1] = 1 THEN 0 ELSE a) * v.shape[2]
           + (IF v.shape[2] = 1 THEN 0 ELSE b) + 1]

\* data with entry (a, b) of v written (add = FALSE) or added (add = TRUE)
\* at [k, a, b].
PutSlab(data, shape, k, v, sign, add) ==
    [i \in 1..Len(data) |->
        LET a == ((i - 1) \div shape[3]) % shape[2]
            b == (i - 1) % shape[3]
        IN IF (i - 1) \div (shape[2] * shape[3]) # k THEN data[i]
           ELSE (IF add THEN data[i] ELSE <<>>)
                \o ESign(sign, BEntry(v, a, b))]

\* conj(flip(flmn[k] * sgn * (-1)**n, axis=-1)) with sgn = (-1)**|m| over
\* the 2L-1 orders m: a 2-d array of the shape of a slab.
FlippedSlab(data, shape, k, L, n) ==
    Arr(Tail2(shape),
        [i \in 1..(shape[2] * shape[3]) |->
            LET a == (i - 1) \div shape[3]
                b == shape[3] - 1 - ((i - 1) % shape[3])
                sgn == IF L = 1 THEN 1 ELSE Pow1(Abs(b - (L - 1)))
            IN EConj(ESign(sgn * Pow1(n), data[Off3(shape, k, a, b)]))])

\* The loop of forward_numpy (jax = FALSE) and forward_jax (jax = TRUE)
\* from order n on.  NumPy raises on an index out of range; JAX clamps the
\* index of a read and drops an update out of range.
RECURSIVE JaxForwardLoop(_, _, _, _, _, _, _, _, _, _, _)
JaxForwardLoop(n, data, shape, fban, L, N, sampling, reality, nside, precomps, jax) ==
    IF n >= N THEN [status |-> "ok", why |-> "", data |-> data]
    ELSE
    LET n_start_ind == IF reality THEN 0 ELSE -N + 1
        s == n - n_start_ind
        k == N - 1 + n
        Fail(exc, why) == [status |-> exc, why |-> why, data |-> data]
        r == SpinForward(Tail2(fban), L, n, sampling, nside,
                         Min(s, fban[1] - 1),
                         IF reality THEN "rfft" ELSE "fft")
    IN IF ~jax /\ s >= fban[1] THEN Fail("IndexError", "fban index")
       ELSE IF ~precomps THEN Fail("TypeError", "precomps is None")
       ELSE IF r.status # "ok" THEN Fail(r.status, r.why)
       ELSE IF ~jax /\ k >= shape[1] THEN Fail("IndexError", "flmn index")
       ELSE IF ~Broadcastable(r.value.shape, Tail2(shape))
       THEN Fail("ValueError", "broadcast")
       ELSE
       LET written == IF k >= shape[1] THEN data
                      ELSE PutSlab(data, shape, k, r.value, Pow1(n), jax)
           kr == Min(k, shape[1] - 1)
           kd == N - 1 - n
       IN IF ~(reality /\ n # 0)
          THEN JaxForwardLoop(n + 1, written, shape, fban, L, N, sampling,
                              reality, nside, precomps, jax)
          ELSE IF 2 * L - 1 \notin {shape[3], 1}
          THEN Fail("ValueError", "broadcast")
          ELSE JaxForwardLoop(n + 1,
                  IF kd >= shape[1] THEN written
                  ELSE PutSlab(written, shape, kd,
                               FlippedSlab(written, shape, kr, L, n), 1, jax),
                  shape, fban, L, N, sampling, reality, nside, precomps, jax)

\* einsum("...nlm,...l->...nlm", flmn, sqrt(4 pi / (2 arange(L) + 1))):
\* the factor of degree l scales index l of the middle axis.
ScaleMiddleAxis(data, shape) ==
    [i \in 1..Len(data) |->
        ENorm(((i - 1) \div shape[3]) % shape[2], data[i])]

JaxForwardBody(f, L, N, nside, sampling, reality, precomps, jax) ==
    LET shape == flmn_shape(L, N)
        fban == FftShape(f.shape, GammaAxis(sampling), reality)
    IN IF fban = <<>> THEN Raise("AxisError", "fft axis")
       ELSE LET loop == JaxForwardLoop(IF reality THEN 0 ELSE -N + 1,
                            [i \in 1..Prod(shape) |-> <<>>], shape, fban,
                            L, N, sampling, reality, nside, precomps, jax)
            IN IF loop.status # "ok" THEN Raise(loop.status, loop.why)
               ELSE IF shape[2] # L THEN Raise("ValueError", "einsum")
               ELSE OkArr(Arr(shape, ScaleMiddleAxis(loop.data, shape)))

forward_numpy(f, L, N, nside, sampling, reality, precomps) ==
    JaxForwardBody(f, L, N, nside, sampling, reality, precomps, FALSE)

forward_jax(f, L, N, nside, sampling, reality, precomps) ==
    JaxForwardBody(f, L, N, nside, sampling, reality, precomps, TRUE)

Methods == {"numpy", "jax", "torch"}

\* forward(f, L, N, nside, sampling, method, reality, precomps, spmd)
jax_forward_anymethod(f, L, N, nside, sampling, method, reality, precomps) ==
    IF method = "jax"
    THEN [forward_jax(f, L, N, nside, sampling, reality, precomps)
            EXCEPT !.impl = "jax"]
    ELSE [forward_numpy(f, L, N, nside, sampling, reality, precomps)
            EXCEPT !.impl = "numpy"]

jax_forward(f, L, N, nside, sampling, method, reality, precomps) ==
    IF method = "numpy"
    THEN [forward_numpy(f, L, N, nside, sampling, reality, precomps)
            EXCEPT !.impl = "numpy"]
    ELSE IF method = "jax"
    THEN [forward_jax(f, L, N, nside, sampling, reality, precomps)
            EXCEPT !.impl = "jax"]
    ELSE Raise("ValueError", "method")

\* The loop of inverse_numpy and inverse_jax from order n on, on the slots
\* of the leading axis of fban.
RECURSIVE JaxInverseLoop(_, _, _, _, _, _, _, _, _, _)
JaxInverseLoop(n, slots, fshape, flmnShape, L, N, sampling, nside, precomps, jax) ==
    IF n >= N THEN [status |-> "ok", why |-> "", slots |-> slots]
    ELSE
    LET k == N - 1 + n
        Fail(exc, why) == [status |-> exc, why |-> why, slots |-> slots]
        r == SpinInverse(Tail2(flmnShape), L, n, sampling, nside)
    IN IF ~jax /\ k >= flmnShape[1] THEN Fail("IndexError", "flmn index")
       ELSE IF ~precomps THEN Fail("TypeError", "precomps is None")
       ELSE IF r.status # "ok" THEN Fail(r.status, r.why)
       ELSE IF ~jax /\ k >= fshape[1] THEN Fail("IndexError", "fban index")
       ELSE IF ~Broadcastable(r.value.shape, Tail2(fshape))
       THEN Fail("ValueError", "broadcast")
       ELSE JaxInverseLoop(n + 1,
               IF k >= fshape[1] THEN slots
               ELSE [slots EXCEPT ![k + 1] = <<[n |-> n, sgn |-> Pow1(n)]>>],
               fshape, flmnShape, L, N, sampling, nside, precomps, jax)

JaxInverseBody(flmn, L, N, nside, sampling, reality, precomps, jax) ==
    LET shp == f_shape_call(<<L, N, sampling, nside>>)
    IN IF shp.status # "ok" THEN Raise(shp.status, shp.why)
       ELSE IF Len(flmn.shape) < 3 \/ flmn.shape[Len(flmn.shape) - 1] # L
       THEN Raise("ValueError", "einsum")
       ELSE LET loop == JaxInverseLoop(IF reality THEN 0 ELSE -N + 1,
                            [k \in 1..shp.tuple[1] |-> <<>>], shp.tuple,
                            flmn.shape, L, N, sampling, nside, precomps, jax)
            IN IF loop.status # "ok" THEN Raise(loop.status, loop.why)
               ELSE InverseResult(
                       FftShape(shp.tuple, GammaAxis(sampling), FALSE),
                       loop.slots, Min(N, shp.tuple[1]), reality)

inverse_numpy(flmn, L, N, nside, sampling, reality, precomps) ==
    JaxInverseBody(flmn, L, N, nside, sampling, reality, precomps, FALSE)

inverse_jax(flmn, L, N, nside, sampling, reality, precomps) ==
    JaxInverseBody(flmn, L, N, nside, sampling, reality, precomps, TRUE)

\* inverse(flmn, L, N, nside, sampling, method, reality, precomps, spmd)
jax_inverse(flmn, L, N, nside, sampling, method, reality, precomps) ==
    IF method = "numpy"
    THEN [inverse_numpy(flmn, L, N, nside, sampling, reality, precomps)
            EXCEPT !.impl = "numpy"]
    ELSE IF method = "jax"
    THEN [inverse_jax(flmn, L, N, nside, sampling, reality, precomps)
            EXCEPT !.impl = "jax"]
    ELSE Raise("ValueError", "method")

(***************************************************************************)
(* s2fft/general_precompute/resampling_jax.py                              *)
(***************************************************************************)
\* f_ext[0:rows, :] of a 2-d array (a slice stops at the end of the axis).
TopRows(f_ext, rows) ==
    IF Len(f_ext.shape) # 2 THEN Raise("IndexError", "too many indices")
    ELSE LET kept == Min(rows, f_ext.shape[1])
         IN OkArr(Arr(<<kept, f_ext.shape[2]>>,
                      SubSeq(f_ext.data, 1, kept * f_ext.shape[2])))

unextend(f_ext, L, sampling) ==
    IF Lower(sampling) = "mw" THEN TopRows(f_ext, L)
    ELSE IF Lower(sampling) = "mwss" THEN TopRows(f_ext, L + 1)
    ELSE Raise("ValueError", "sampling")

(***************************************************************************)
(* s2fft/precompute_transforms/construct.py                                *)
(*                                                                         *)
(* Kernel entries are formal: KTerm(t, el, m, mm, ...) is the reduced      *)
(* Wigner-d value d^el_{m,mm}(theta_t) that recursions.turok.compute_slice *)
(* returns, and an entry is <<>> (zero) or one term with the factors       *)
(* (normalisation, quadrature weight, HEALPix phase) applied to it.        *)
(***************************************************************************)
\* len(samples.thetas(L, sampling, nside)) of s2fft.sampling.s2_samples.
thetas(L, sampling, nside) ==
    IF Lower(sampling) = "mw" THEN OkTuple(<<L>>)
    ELSE IF Lower(sampling) = "mwss" THEN OkTuple(<<L + 1>>)
    ELSE IF Lower(sampling) = "dh" THEN OkTuple(<<2 * L>>)
    ELSE IF Lower(sampling) = "healpix" THEN OkTuple(<<4 * nside - 1>>)
    ELSE Raise("ValueError", "sampling")

\* A mutation of EffectiveReality: the reality flag is kept for any spin.
KeepReality(reality, spin) == reality

\* if reality and spin != 0: reality = False
EffectiveReality(reality, spin) == IF reality /\ spin # 0 THEN FALSE ELSE reality

\* A mutation of KernelThetas: the requested grid at band-limit L for
\* forward kernels too.
KernelThetasRequested(L, sampling, nside, forward) ==
    [th |-> thetas(L, sampling, nside), sampling |-> sampling]

\* The thetas of a kernel, and the sampling the rest of the constructor sees.
KernelThetas(L, sampling, nside, forward) ==
    IF forward /\ Lower(sampling) \in {"mw", "mwss"}
    THEN [th |-> thetas(2 * L, "mwss", 0), sampling |-> "mwss"]
    ELSE [th |-> thetas(L, sampling, nside), sampling |-> sampling]

\* len(quadrature.quad_weights_transform(L, sampling, 0, nside)) of
\* s2fft.utils.quadrature: one weight per ring of the MWSS grid of
\* band-limit 2L, of the DH grid, or of the HEALPix grid.
quad_weights_transform(L, sampling, nside) ==
    IF Lower(sampling) = "mwss" THEN OkTuple(<<2 * L + 1>>)
    ELSE IF Lower(sampling) = "dh" THEN OkTuple(<<2 * L>>)
    ELSE IF Lower(sampling) = "healpix" THEN OkTuple(<<4 * nside - 1>>)
    ELSE Raise("ValueError", "sampling")

\* np.einsum("...tlm, ...t->...tlm", dl, weights) of a forward kernel: the
\* error it raises, "ok" when the weights fit the ring axis.
WeightsFit(L, sampling, nside, forward, ntheta) ==
    LET w == quad_weights_transform(L, sampling, nside)
    IN IF ~forward THEN OkTuple(<<>>)
       ELSE IF w.status # "ok" THEN w
       ELSE IF w.tuple[1] # ntheta THEN Raise("ValueError", "einsum")
       ELSE OkTuple(<<>>)

KTerm(t, el, m, mm, real) ==
    [t |-> t, el |-> el, m |-> m, mm |-> mm, real |-> real,
     norm |-> "none", weighted |-> FALSE, phased |-> FALSE]

\* compute_slice(theta_t, el, L, mm, reality)[j + L - 1] for order m = j:
\* zero for |m| > el.
compute_slice(t, el, m, mm, real) ==
    IF Abs(m) <= el THEN <<KTerm(t, el, m, mm, real)>> ELSE <<>>

KMark(e, norm, weighted, phased) ==
    [i \in 1..Len(e) |->
        [e[i] EXCEPT !.norm = IF norm = "keep" THEN @ ELSE norm,
                     !.weighted = weighted, !.phased = phased]]

spin_spherical_kernel(L, spin, reality, sampling, nside, forward) ==
    LET real == EffectiveReality(reality, spin)
        warned == reality /\ spin # 0
        m_start_ind == IF real THEN L - 1 ELSE 0
        m_dim == IF real THEN L ELSE 2 * L - 1
        kt == KernelThetas(L, sampling, nside, forward)
    IN IF kt.th.status # "ok"
       THEN [Raise(kt.th.status, kt.th.why) EXCEPT !.warned = warned]
       ELSE IF WeightsFit(L, kt.sampling, nside, forward, kt.th.tuple[1]).status # "ok"
       THEN [WeightsFit(L, kt.sampling, nside, forward, kt.th.tuple[1])
                EXCEPT !.warned = warned]
       ELSE LET ntheta == kt.th.tuple[1]
                shape == <<ntheta, L, m_dim>>
                dl == [i \in 1..Prod(shape) |->
                        LET t == (i - 1) \div (L * m_dim)
                            el == ((i - 1) \div m_dim) % L
                            m == ((i - 1) % m_dim) + m_start_ind - (L - 1)
                        IN IF el >= Abs(spin)
                           THEN KMark(compute_slice(t, el, m, -spin, real),
                                      "sqrt((2el+1)/4pi)", forward,
                                      Lower(kt.sampling) = "healpix")
                           ELSE <<>>]
            IN [OkArr(Arr(shape, dl)) EXCEPT !.warned = warned]

\* A mutation of KernelInd: the index N - 1 + n whatever reality is.
KernelIndFull(n, N, reality) == N - 1 + n

\* ind = n if reality else N - 1 + n
KernelInd(n, N, reality) == IF reality THEN n ELSE N - 1 + n

\* range(n_start_ind - N + 1, N)
KernelOrders(N, reality) ==
    ((IF reality THEN N - 1 ELSE 0) - N + 1)..(N - 1)

\* dl[ind] for a python index: negative indices count from the end.
PyAxis(ind, dim) == IF ind < 0 THEN ind + dim ELSE ind

\* The orders n whose loop iterations assign to index ind of the leading
\* axis (an iteration assigns only when range(abs(n), L) is not empty).
KernelWriters(ind, L, N, n_dim, reality) ==
    {n \in KernelOrders(N, reality) :
        Abs(n) < L /\ PyAxis(KernelInd(n, N, reality), n_dim) = ind}

wigner_kernel(L, N, reality, sampling, nside, forward) ==
    LET n_dim == IF reality THEN N ELSE 2 * N - 1
        kt == KernelThetas(L, sampling, nside, forward)
    IN IF kt.th.status # "ok" THEN Raise(kt.th.status, kt.th.why)
       ELSE IF \E n \in KernelOrders(N, reality) :
                 Abs(n) < L /\ KernelInd(n, N, reality) \notin (-n_dim)..(n_dim - 1)
       THEN Raise("IndexError", "leading axis")
       ELSE IF WeightsFit(L, kt.sampling, nside, forward, kt.th.tuple[1]).status # "ok"
       THEN WeightsFit(L, kt.sampling, nside, forward, kt.th.tuple[1])
       ELSE LET ntheta == kt.th.tuple[1]
                shape == <<n_dim, ntheta, L, 2 * L - 1>>
                dl == [i \in 1..Prod(shape) |->
                        LET ind == (i - 1) \div (ntheta * L * (2 * L - 1))
                            t == ((i - 1) \div (L * (2 * L - 1))) % ntheta
                            el == ((i - 1) \div (2 * L - 1)) % L
                            m == ((i - 1) % (2 * L - 1)) - (L - 1)
                            \* The iterations that assign dl[ind, t, el],
                            \* the last of them leaves its slice there.
                            ns == {n \in KernelWriters(ind, L, N, n_dim, reality) :
                                     el >= Abs(n)}
                        IN IF ns # {}
                           THEN KMark(compute_slice(t, el, m,
                                        CHOOSE n \in ns : \A k \in ns : k <= n,
                                        FALSE),
                                      IF forward THEN "2pi/(2N-1)"
                                      ELSE "(2el+1)/8pi^2", forward,
                                      Lower(kt.sampling) = "healpix")
                           ELSE <<>>]
            IN OkArr(Arr(shape, dl))

(***************************************************************************)
(* periodic_extension of resampling_jax.py.  The FFT along phi is formal:  *)
(* the coefficient of column c of fftshift(fft(px)) of the pixel row px is *)
(* the indeterminate [px, col |-> c], and the inverse FFT of a row of      *)
(* coefficients is the pixel row px when the row is the spectrum of px and *)
(* a formal pixel otherwise (exact arithmetic).                            *)
(***************************************************************************)
\* samples.ntheta, samples.nphi_equiang and samples.ntheta_extension of
\* s2fft.samples.
ntheta(L, sampling) == thetas(L, sampling, 1)

nphi_equiang(L, sampling) ==
    IF Lower(sampling) \in {"mw", "dh"} THEN OkTuple(<<2 * L - 1>>)
    ELSE IF Lower(sampling) = "mwss" THEN OkTuple(<<2 * L>>)
    ELSE Raise("ValueError", "sampling")

ntheta_extension(L, sampling) ==
    IF Lower(sampling) = "mw" THEN OkTuple(<<2 * L - 1>>)
    ELSE IF Lower(sampling) = "mwss" THEN OkTuple(<<2 * L>>)
    ELSE Raise("ValueError", "sampling")

\* fftshift(fft(px)) of a pixel row, and ifft(ifftshift(row)).
FftRow(px) ==
    [c \in 1..Len(px) |-> <<[px |-> px, col |-> c - 1, sgn |-> 1]>>]

IfftRow(row) ==
    IF Len(row) > 0 /\ Len(row[1]) = 1 /\ row = FftRow(row[1][1].px)
    THEN row[1][1].px
    ELSE [k \in 1..Len(row) |-> <<"ifft", row, k - 1>>]

\* A mutation of ExtensionRows: the reflected block starts one row early.
ExtensionRowsFromL(L, m_offset, ntheta_ext) ==
    (L + m_offset - 1)..(Min(2 * L - 1 + m_offset, ntheta_ext) - 2)

\* The rows the slice L + m_offset : 2 * L - 1 + m_offset selects.
ExtensionRows(L, m_offset, ntheta_ext) ==
    (L + m_offset)..(Min(2 * L - 1 + m_offset, ntheta_ext) - 1)

periodic_extension(f, L, spin, sampling) ==
    LET nt == ntheta(L, sampling)
        np == nphi_equiang(L, sampling)
        ne == ntheta_extension(L, sampling)
    IN IF nt.status # "ok" THEN Raise(nt.status, nt.why)
       ELSE IF np.status # "ok" THEN Raise(np.status, np.why)
       ELSE IF ne.status # "ok" THEN Raise(ne.status, ne.why)
       ELSE IF Len(f.shape) # 2 THEN Raise("IndexError", "too many indices")
       ELSE
       LET nth == nt.tuple[1]
           nphi == np.tuple[1]
           next == ne.tuple[1]
           m_offset == IF sampling = "mwss" THEN 1 ELSE 0
           part == Arr(<<Min(nth, f.shape[1]), Min(nphi, f.shape[2])>>,
                       [i \in 1..(Min(nth, f.shape[1]) * Min(nphi, f.shape[2]))
                          |-> f.data[((i - 1) \div Min(nphi, f.shape[2]))
                                       * f.shape[2]
                                     + ((i - 1) % Min(nphi, f.shape[2])) + 1]])
           \* f_ext.at[0:ntheta, 0:nphi].set(f[0:ntheta, 0:nphi])
           pix == [r \in 1..next |->
                    [c \in 1..nphi |->
                        IF r <= nth THEN BEntry(part, r - 1, c - 1)
                        ELSE CZero]]
           spec == [r \in 1..next |-> FftRow(pix[r])]
           rows == ExtensionRows(L, m_offset, next)
           cols == m_offset..(Min(2 * L - 1 + m_offset, nphi) - 1)
           srcs == m_offset..(Min(L - 1 + m_offset, next) - 1)
           \* flip(f_ext[m_offset : L - 1 + m_offset, ...], axis=0) * sign
           ext == [r \in 1..next |->
                    [c \in 1..nphi |->
                        IF (r - 1) \in rows /\ (c - 1) \in cols
                        THEN ESign(Pow1(c - 1 - m_offset - (L - 1) + spin),
                                spec[L - 1 + m_offset
                                     - (r - 1 - (L + m_offset))][c])
                        ELSE spec[r][c]]]
           out == [r \in 1..next |-> IfftRow(ext[r])]
       IN IF ~Broadcastable(part.shape, <<nth, nphi>>)
          THEN Raise("ValueError", "broadcast")
          ELSE IF Cardinality(rows) # Cardinality(srcs)
                  \/ Cardinality(cols) # 2 * L - 1
          THEN Raise("ValueError", "broadcast")
          ELSE OkArr(Arr(<<next, nphi>>,
                  [i \in 1..(next * nphi) |->
                      out[((i - 1) \div nphi) + 1][((i - 1) % nphi) + 1]]))

(***************************************************************************)
(* healpix_fft and healpix_ifft of healpix_ffts.py.  A ring spectrum is    *)
(* formal, as in periodic_extension: fftshift(fft(px, norm="backward")) is *)
(* FftRow(px).  The inverse FFTs use norm="forward", which does not scale: *)
(* of the spectrum of a ring px of n pixels they return n * px.            *)
(***************************************************************************)
\* samples.nphi_ring(t, nside), samples.ftm_shape(L, "healpix", nside) and
\* samples.f_shape(sampling="healpix", nside=nside) of s2fft.samples.
nphi_ring(t, nside) ==
    IF 0 <= t /\ t < nside - 1 THEN OkTuple(<<4 * (t + 1)>>)
    ELSE IF nside - 1 <= t /\ t <= 3 * nside - 1 THEN OkTuple(<<4 * nside>>)
    ELSE IF 3 * nside - 1 < t /\ t <= 4 * nside - 2
    THEN OkTuple(<<4 * (4 * nside - t - 1)>>)
    ELSE Raise("ValueError", "ring")

ftm_shape_healpix(L, nside) == <<4 * nside - 1, 2 * L>>

f_shape_healpix(nside) == <<12 * nside * nside>>

\* A slice taken from the start of the array whatever lo is: the loop that
\* does not advance index.
SliceUnadvanced(a, lo, hi) == SubSeq(a, 1, Min(hi - lo, Len(a)))

\* a[lo:hi] of a sequence (a slice stops at the end of the array).
Slice(a, lo, hi) == SubSeq(a, Min(lo, Len(a)) + 1, Min(hi, Len(a)))

\* Row t of a 2-dimensional array.
Row2(a, t) == SubSeq(a.data, t * a.shape[2] + 1, (t + 1) * a.shape[2])

\* The rows of a 2-d array of entries, flattened.
Flatten(rows, width) ==
    [i \in 1..(Len(rows) * width) |->
        rows[((i - 1) \div width) + 1][((i - 1) % width) + 1]]

\* fm_chunk[nphi // 2:] = fft.rfft(np.real(chunk))[:-1] of healpix_fft: the
\* value is overwritten by the next statement, the statement can still fail.
RealChunkFails(chunk, nphi) ==
    \/ Len(chunk) = 0
    \/ Len(chunk) \div 2 \notin {nphi - nphi \div 2, 1}

\* The loop of healpix_fft from ring t on.
RECURSIVE FftRings(_, _, _, _, _, _, _)
FftRings(t, index, rows, f, L, nside, reality) ==
    IF t >= Len(rows) THEN [status |-> "ok", why |-> "", rows |-> rows]
    ELSE
    LET nphi == nphi_ring(t, nside).tuple[1]
        chunk == Slice(f.data, index, index + nphi)
        fm_chunk == FftRow(chunk)
        row == IF nphi = 2 * L THEN OkArr(Arr1(fm_chunk))
               ELSE spectral_periodic_extension(fm_chunk, nphi, L)
        Fail(exc, why) == [status |-> exc, why |-> why, rows |-> rows]
    IN IF reality /\ nphi = 2 * L /\ RealChunkFails(chunk, nphi)
       THEN Fail("ValueError", "rfft chunk")
       ELSE IF Len(chunk) = 0 THEN Fail("ValueError", "fft of no points")
       ELSE IF row.status # "ok" THEN Fail(row.status, row.why)
       ELSE IF Len(row.value.data) \notin {2 * L, 1}
       THEN Fail("ValueError", "broadcast")
       ELSE FftRings(t + 1, index + nphi,
               [rows EXCEPT ![t + 1] =
                   [k \in 1..(2 * L) |->
                       row.value.data[IF Len(row.value.data) = 1 THEN 1 ELSE k]]],
               f, L, nside, reality)

healpix_fft(f, L, nside, reality) ==
    IF ~(L >= 2 * nside) THEN Raise("AssertionError", "L >= 2 * nside")
    ELSE LET shape == ftm_shape_healpix(L, nside)
             loop == FftRings(0, 0,
                        [t \in 1..shape[1] |-> [k \in 1..shape[2] |-> CZero]],
                        f, L, nside, reality)
         IN IF loop.status # "ok" THEN Raise(loop.status, loop.why)
            ELSE OkArr(Arr(shape, Flatten(loop.rows, shape[2])))

\* The alternating sum of a real ring: its coefficient at frequency n/2.
RECURSIVE Nyquist(_)
Nyquist(px) ==
    IF px = <<>> THEN 0 ELSE px[1][1] - Nyquist(Tail(px))

IsPixels(px) == \A k \in 1..Len(px) : Len(px[k]) = 2

\* fft.ifft(fft.ifftshift(fm_chunk), norm="forward")
IfftForward(fm_chunk) ==
    IF Len(fm_chunk) > 0 /\ Len(fm_chunk[1]) = 1
       /\ "px" \in DOMAIN fm_chunk[1][1]
       /\ fm_chunk = FftRow(fm_chunk[1][1].px)
       /\ IsPixels(fm_chunk[1][1].px)
    THEN [k \in 1..Len(fm_chunk) |->
            CScale(Len(fm_chunk), fm_chunk[1][1].px[k])]
    ELSE [k \in 1..Len(fm_chunk) |-> <<"ifft", fm_chunk, k - 1>>]

\* fft.irfft(fm_chunk[nphi // 2:], nphi, norm="forward"): the real ring
\* with the coefficients given for the frequencies 0 .. nphi/2 - 1 and none
\* at frequency nphi/2.
IrfftForward(fm_chunk, nphi) ==
    LET half == Slice(fm_chunk, nphi \div 2, Len(fm_chunk))
        px == fm_chunk[1][1].px
    IN IF Len(fm_chunk) = nphi /\ nphi % 2 = 0 /\ Len(fm_chunk[1]) = 1
          /\ "px" \in DOMAIN fm_chunk[1][1]
          /\ fm_chunk = FftRow(px) /\ IsPixels(px)
          /\ \A k \in 1..nphi : px[k][2] = 0
       THEN [k \in 1..nphi |->
               <<nphi * px[k][1] - Nyquist(px) * Pow1(k - 1), 0>>]
       ELSE [k \in 1..nphi |-> <<"irfft", half, k - 1>>]

\* The loop of healpix_ifft from ring t on: f is the pixel array and ftm
\* the rows of the spectrum as written so far (spectral_folding writes the
\* row it is given).
RECURSIVE IfftRings(_, _, _, _, _, _, _, _)
IfftRings(t, index, f, ftm, width, L, nside, reality) ==
    IF t >= Len(ftm) THEN [status |-> "ok", why |-> "", f |-> f, ftm |-> ftm]
    ELSE
    LET ring == nphi_ring(t, nside)
        nphi == ring.tuple[1]
        fold == spectral_folding(ftm[t + 1], nphi, L)
        folded == IF nphi = 2 * L THEN ftm
                  ELSE [ftm EXCEPT ![t + 1] = fold.after]
        fm_chunk == IF nphi = 2 * L THEN ftm[t + 1] ELSE fold.ret.value.data
        ring_f == IF reality /\ nphi = 2 * L
                  THEN IrfftForward(fm_chunk, nphi)
                  ELSE IfftForward(fm_chunk)
        room == Len(Slice(f, index, index + nphi))
        Fail(exc, why, m) ==
            [status |-> exc, why |-> why, f |-> f, ftm |-> m]
    IN IF ring.status # "ok" THEN Fail(ring.status, ring.why, ftm)
       ELSE IF nphi # 2 * L /\ fold.ret.status # "ok"
       THEN Fail(fold.ret.status, fold.ret.why, folded)
       ELSE IF Len(IF reality /\ nphi = 2 * L
                   THEN Slice(fm_chunk, nphi \div 2, Len(fm_chunk))
                   ELSE fm_chunk) = 0
       THEN Fail("ValueError", "fft of no points", folded)
       ELSE IF Len(ring_f) \notin {room, 1}
       THEN Fail("ValueError", "broadcast", folded)
       ELSE IfftRings(t + 1, index + nphi,
               [p \in 1..Len(f) |->
                   IF index < p /\ p <= index + nphi
                   THEN ring_f[IF Len(ring_f) = 1 THEN 1 ELSE p - index]
                   ELSE f[p]],
               folded, width, L, nside, reality)

\* healpix_ifft(ftm, L, nside, reality): the result and ftm as the call
\* leaves it.
healpix_ifft(ftm, L, nside, reality) ==
    IF ~(L >= 2 * nside)
    THEN [ret |-> Raise("AssertionError", "L >= 2 * nside"), after |-> ftm]
    ELSE LET npix == f_shape_healpix(nside)[1]
             loop == IfftRings(0, 0, [p \in 1..npix |-> CZero],
                        [t \in 1..ftm.shape[1] |-> Row2(ftm, t - 1)],
                        ftm.shape[2], L, nside, reality)
             after == Arr(ftm.shape, Flatten(loop.ftm, ftm.shape[2]))
         IN IF loop.status # "ok"
            THEN [ret |-> Raise(loop.status, loop.why), after |-> after]
            ELSE [ret |-> OkArr(Arr1(loop.f)), after |-> after]

(***************************************************************************)
(* The resampling functions of resampling_jax.py.  The FFTs along an axis  *)
(* are formal: fftshift(fft(v, norm="forward")) of a line v of the array   *)
(* holds at position k the coefficient of v at the signed frequency        *)
(* k - len(v) // 2, and ifft(ifftshift(w), norm="forward") is a formal     *)
(* pixel of the centred spectrum w.                                        *)
(***************************************************************************)
\* The signed frequency at position pos of a centred spectrum of n bins.
CentredFreq(pos, n) == pos - n \div 2

\* fftshift(fft(v, norm="forward")) of one line v.
FftCentred(v) ==
    [k \in 1..Len(v) |->
        <<[px |-> v, freq |-> CentredFreq(k - 1, Len(v)), sgn |-> 1,
           phase |-> <<>>]>>]

\* ifft(ifftshift(w), norm="forward") of one line w.
IfftCentred(w) == [k \in 1..Len(w) |-> <<"ifft_forward", w, k - 1>>]

\* Column c of a 2-dimensional array.
Col(a, c) == [r \in 1..a.shape[1] |-> a.data[(r - 1) * a.shape[2] + c + 1]]

\* a[r0:r1, c0:c1] of a 2-dimensional array (slices stop at the edges).
Block(a, r0, r1, c0, c1) ==
    LET nr == Max(0, Min(r1, a.shape[1]) - r0)
        nc == Max(0, Min(c1, a.shape[2]) - c0)
    IN Arr(<<nr, nc>>,
           [i \in 1..(nr * nc) |->
               a.data[(r0 + (i - 1) \div nc) * a.shape[2]
                      + c0 + ((i - 1) % nc) + 1]])

\* fftshift(fft(a, axis=0, norm="forward"), axes=0)
FftAxis0(a) ==
    Arr(a.shape,
        [i \in 1..Prod(a.shape) |->
            FftCentred(Col(a, (i - 1) % a.shape[2]))[((i - 1) \div a.shape[2]) + 1]])

\* fftshift(fft(a, axis=1, norm="forward"), axes=1)
FftAxis1(a) ==
    Arr(a.shape,
        [i \in 1..Prod(a.shape) |->
            FftCentred(Row2(a, (i - 1) \div a.shape[2]))[((i - 1) % a.shape[2]) + 1]])

\* ifft(ifftshift(rows, axes=0), axis=0, norm="forward") of an array given
\* by its rows.
IfftAxis0(rows, width) ==
    Arr(<<Len(rows), width>>,
        [i \in 1..(Len(rows) * width) |->
            IfftCentred([k \in 1..Len(rows) |-> rows[k][((i - 1) % width) + 1]])
                [((i - 1) \div width) + 1]])

IfftAxis1(rows, width) ==
    Arr(<<Len(rows), width>>,
        [i \in 1..(Len(rows) * width) |->
            IfftCentred(rows[((i - 1) \div width) + 1])[((i - 1) % width) + 1]])

\* A coefficient times exp(-1j * m * pi / (2L - 1)).
EPhase(m, e) == [i \in 1..Len(e) |-> [e[i] EXCEPT !.phase = <<m>>]]

\* An entry times the sign k.
VSign(k, v) ==
    IF k = 1 THEN v
    ELSE IF Len(v) = 2 THEN CScale(k, v)
    ELSE IF Len(v) = 1 THEN ESign(k, v)
    ELSE <<"times", v, k>>

mw_to_mwss_theta(f_mw, L, spin) ==
    LET f_mw_ext == periodic_extension(f_mw, L, spin, "mw")
    IN IF f_mw_ext.status # "ok" THEN f_mw_ext
       ELSE
       LET spec == FftAxis0(f_mw_ext.value)
           \* .at[1:].set(spectrum), then the einsum with the phases
           fmp_mwss_ext ==
               [r \in 1..(2 * L) |->
                   [c \in 1..(2 * L - 1) |->
                       IF r = 1 THEN CZero
                       ELSE EPhase(r - 2 - (L - 1), BEntry(spec, r - 2, c - 1))]]
       IN IF ~Broadcastable(spec.shape, <<2 * L - 1, 2 * L - 1>>)
          THEN Raise("ValueError", "broadcast")
          ELSE unextend(IfftAxis0(fmp_mwss_ext, 2 * L - 1), L, "mwss")

mw_to_mwss_phi(f_mw, L) ==
    IF Len(f_mw.shape) # 2 THEN Raise("ValueError", "axis")
    ELSE
    LET spec == FftAxis1(f_mw)
        f_mwss ==
            [r \in 1..(L + 1) |->
                [c \in 1..(2 * L) |->
                    IF c = 1 THEN CZero ELSE BEntry(spec, r - 1, c - 2)]]
    IN IF ~Broadcastable(spec.shape, <<L + 1, 2 * L - 1>>)
       THEN Raise("ValueError", "broadcast")
       ELSE OkArr(IfftAxis1(f_mwss, 2 * L))

mw_to_mwss(f_mw, L, spin) ==
    LET theta == mw_to_mwss_theta(f_mw, L, spin)
    IN IF theta.status # "ok" THEN theta ELSE mw_to_mwss_phi(theta.value, L)

\* A mutation of UpsampleRowStart: the spectrum is placed from row 0 on.
UpsampleRowStartZero(L) == 0

\* The first row of f_ext_up.at[L : ntheta_ext + L, :nphi]
UpsampleRowStart(L) == L

upsample_by_two_mwss_ext(f_ext, L) ==
    IF Len(f_ext.shape) # 2 THEN Raise("IndexError", "too many indices")
    ELSE
    LET nphi == 2 * L
        ntheta_ext == 2 * L
        spec == FftAxis0(f_ext)
        part == Block(spec, 0, ntheta_ext, 0, nphi)
        start == UpsampleRowStart(L)
        f_ext_up ==
            [r \in 1..(2 * ntheta_ext) |->
                [c \in 1..nphi |->
                    IF start <= r - 1 /\ r - 1 < start + ntheta_ext
                    THEN BEntry(part, r - 1 - start, c - 1)
                    ELSE CZero]]
    IN IF ~Broadcastable(part.shape, <<ntheta_ext, nphi>>)
       THEN Raise("ValueError", "broadcast")
       ELSE OkArr(IfftAxis0(f_ext_up, nphi))

periodic_extension_spatial_mwss(f, L, spin) ==
    IF Len(f.shape) # 2 THEN Raise("IndexError", "too many indices")
    ELSE
    LET nth == L + 1
        nphi == 2 * L
        ntheta_ext == 2 * L
        top == Block(f, 0, nth, 0, nphi)
        mid == Block(f, 1, nth - 1, 0, 2 * L)
        w == mid.shape[2]
        \* (-1) ** spin * fftshift(flipud(mid), axes=1)
        low == Arr(mid.shape,
                  [i \in 1..Prod(mid.shape) |->
                      LET r == (i - 1) \div w
                          c == (i - 1) % w
                      IN VSign(Pow1(spin),
                               mid.data[(mid.shape[1] - 1 - r) * w
                                        + ((c - w \div 2) % w) + 1])])
        f_ext == [r \in 1..ntheta_ext |->
                    [c \in 1..nphi |->
                        IF r <= nth THEN BEntry(top, r - 1, c - 1)
                        ELSE BEntry(low, r - 1 - nth, c - 1)]]
    IN IF ~Broadcastable(top.shape, <<nth, nphi>>)
          \/ ~Broadcastable(low.shape, <<ntheta_ext - nth, 2 * L>>)
       THEN Raise("ValueError", "broadcast")
       ELSE OkArr(Arr(<<ntheta_ext, nphi>>, Flatten(f_ext, nphi)))

upsample_by_two_mwss(f, L, spin) ==
    LET f_ext == periodic_extension_spatial_mwss(f, L, spin)
        f_ext_up == upsample_by_two_mwss_ext(f_ext.value, L)
    IN IF f_ext.status # "ok" THEN f_ext
       ELSE IF f_ext_up.status # "ok" THEN f_ext_up
       ELSE unextend(f_ext_up.value, 2 * L, "mwss")

(***************************************************************************)
(* The session.                                                            *)
(***************************************************************************)
DefPar ==
    [L |-> 1, N |-> 1, sampling |-> "mw", nside |-> 0, nphi |-> 0,
     reality |-> FALSE, method |-> "numpy", precomps |-> FALSE, spin |-> 0,
     forward |-> FALSE, el |-> 0, m |-> 0, n |-> 0]

Call(fn, par, arg, ret, after) ==
    [fn |-> fn, par |-> par, arg |-> arg, ret |-> ret, after |-> after]

Ls == 1..MaxL

Ns == 1..MaxN

\* Input arrays: a single non-zero entry, or a ramp of distinct entries.
OneHot(shape, p, v) ==
    Arr(shape, [i \in 1..Prod(shape) |-> IF i = p THEN v ELSE CZero])

Ramp(shape, v) == Arr(shape, [i \in 1..Prod(shape) |-> CScale(i, v)])

ArraysOf(shape) ==
    {OneHot(shape, p, v) : p \in 1..Prod(shape), v \in NZVals}
        \cup {Ramp(shape, v) : v \in NZVals} \cup {Zeros(shape)}

\* The ramp restricted to the entries with |m| <= el.
SupportRamp(L, N, v) ==
    LET shape == flmn_shape(L, N)
        inSupport(i) ==
            LET el == (i - 1) \div (shape[2] * shape[3])
                j == ((i - 1) \div shape[3]) % shape[2]
            IN j - (L - 1) <= el /\ (L - 1) - j <= el
    IN Arr(shape, [i \in 1..Prod(shape) |->
                     IF inSupport(i) THEN CScale(i, v) ELSE CZero])

\* The shapes a caller may hand to the conversions for band-limits (L, N).
Shapes1d(L, N) ==
    {<<flmn_shape_1d(L, N)>>, <<flmn_shape_1d(L, N) + 1>>}
        \cup (IF L > 1 THEN {<<flmn_shape_1d(L, N) - 1>>} ELSE {})

Shapes3d(L, N) ==
    {flmn_shape(L, N), <<L + 1, 2 * L + 1, 2 * N - 1>>, <<2 * N - 1, L, 2 * L - 1>>}

ShapesOther(L, N) == {<<L, 2 * L - 1>>, <<1, 1, 1, 1>>, <<>>}

FlmnInputs(L, N) ==
    UNION {ArraysOf(s) : s \in Shapes1d(L, N) \cup Shapes3d(L, N)}
        \cup {SupportRamp(L, N, v) : v \in NZVals}
        \cup {Ramp(s, <<1, 0>>) : s \in ShapesOther(L, N)}

Last == calls[Len(calls)]

CanCall == Len(calls) < MaxCalls

\* The array of a new call: a fresh input when the session starts, the
\* array the previous call returned afterwards.
Piped == Len(calls) > 0 /\ Last.ret.status = "ok" /\ Last.ret.value # NoArr

Init == calls = <<>>

Do(fn, par, arg, ret) == calls' = Append(calls, Call(fn, par, arg, ret, arg))

Call_f_shape ==
    /\ calls = <<>>
    /\ \E L \in Ls, N \in Ns, s \in Samplings :
         Do("f_shape", [DefPar EXCEPT !.L = L, !.N = N, !.sampling = s],
            NoArr, f_shape_call(<<L, N, s>>))

Call_nalpha ==
    /\ calls = <<>>
    /\ \E L \in Ls, s \in Samplings :
         Do("_nalpha", [DefPar EXCEPT !.L = L, !.sampling = s],
            NoArr, _nalpha(L, s))

Call_nbeta ==
    /\ calls = <<>>
    /\ \E L \in Ls, s \in Samplings :
         Do("_nbeta", [DefPar EXCEPT !.L = L, !.sampling = s],
            NoArr, _nbeta(L, s))

Call_elmn2ind ==
    /\ calls = <<>>
    /\ \E L \in Ls, N \in Ns :
         \E el \in 0..(L - 1), n \in (1 - N)..(N - 1) :
           \E m \in (-el)..el :
             Do("elmn2ind",
                [DefPar EXCEPT !.L = L, !.N = N, !.el = el, !.m = m, !.n = n],
                NoArr, OkTuple(<<elmn2ind(el, m, n, L, N)>>))

Call_flmn_3d_to_1d ==
    /\ CanCall
    /\ \/ /\ calls = <<>>
          /\ \E L \in Ls, N \in Ns :
               \E a \in FlmnInputs(L, N) :
                 Do("flmn_3d_to_1d", [DefPar EXCEPT !.L = L, !.N = N], a,
                    flmn_3d_to_1d(a, L, N))
       \/ /\ Piped
          /\ Last.fn \in {"flmn_3d_to_1d", "flmn_1d_to_3d"}
          /\ Do("flmn_3d_to_1d", Last.par, Last.ret.value,
                flmn_3d_to_1d(Last.ret.value, Last.par.L, Last.par.N))

Call_flmn_1d_to_3d ==
    /\ CanCall
    /\ \/ /\ calls = <<>>
          /\ \E L \in Ls, N \in Ns :
               \E a \in FlmnInputs(L, N) :
                 Do("flmn_1d_to_3d", [DefPar EXCEPT !.L = L, !.N = N], a,
                    flmn_1d_to_3d(a, L, N))
       \/ /\ Piped
          /\ Last.fn \in {"flmn_3d_to_1d", "flmn_1d_to_3d"}
          /\ Do("flmn_1d_to_3d", Last.par, Last.ret.value,
                flmn_1d_to_3d(Last.ret.value, Last.par.L, Last.par.N))

\* Ring spectra: every array over Vals of length 1 .. 2 * MaxL.
RECURSIVE SeqsOf(_, _)
SeqsOf(S, len) ==
    IF len = 0 THEN {<<>>}
    ELSE {<<v>> \o t : v \in S, t \in SeqsOf(S, len - 1)}

FmInputs == UNION {SeqsOf(Vals, len) : len \in 1..(2 * MaxL)}

Call_spectral_folding ==
    /\ CanCall
    /\ \/ /\ calls = <<>>
          /\ \E L \in Ls :
               \E nphi \in 1..(2 * L + 1), fm \in FmInputs :
                 LET r == spectral_folding(fm, nphi, L)
                 IN calls' = Append(calls,
                        Call("spectral_folding",
                             [DefPar EXCEPT !.L = L, !.nphi = nphi],
                             Arr1(fm), r.ret, Arr1(r.after)))
       \/ /\ Piped
          /\ Last.fn = "spectral_periodic_extension"
          /\ LET r == spectral_folding(Last.ret.value.data, Last.par.nphi,
                                       Last.par.L)
             IN calls' = Append(calls,
                    Call("spectral_folding", Last.par, Last.ret.value, r.ret,
                         Arr1(r.after)))

Call_spectral_periodic_extension ==
    /\ CanCall
    /\ \/ /\ calls = <<>>
          /\ \E L \in Ls :
               \E nphi \in 1..(2 * L + 1), fm \in FmInputs :
                 Do("spectral_periodic_extension",
                    [DefPar EXCEPT !.L = L, !.nphi = nphi], Arr1(fm),
                    spectral_periodic_extension(fm, nphi, L))
       \/ /\ Piped
          /\ Last.fn = "spectral_folding"
          /\ Do("spectral_periodic_extension", Last.par, Last.ret.value,
                spectral_periodic_extension(Last.ret.value.data,
                                            Last.par.nphi, Last.par.L))

\* nside: 0 stands for None, the default; a HEALPix call gives an nside.
NsidesFor(sampling) ==
    IF Lower(sampling) = "healpix" THEN 1..MaxNside ELSE {0}

Spins == (1 - MaxL)..(MaxL - 1)

\* Pixel arrays handed to the Wigner transforms: the shape f_shape gives,
\* the [gamma, beta, alpha] shape of the jax_transforms docstrings, the
\* HEALPix shape [gamma, pixel], and a shape that fits no scheme.
PixelShapes(L, N, sampling, nside) ==
    {SphereShape(L, sampling, nside) \o <<2 * N - 1>>,
     <<2 * N - 1>> \o SphereShape(L, sampling, nside),
     <<2 * N - 1, 3>>}

PixelInputs(L, N, sampling, nside) ==
    {Ramp(sh, <<1, 0>>) : sh \in PixelShapes(L, N, sampling, nside)}

\* Coefficient arrays handed to the Wigner transforms.
CoeffInputs(L, N) ==
    {SupportRamp(L, N, <<1, 0>>), Zeros(flmn_shape(L, N)),
     Ramp(<<2 * N - 1, L, 2 * L - 1>>, <<1, 0>>),
     Ramp(<<L + 1, 2 * L + 1, 2 * N - 1>>, <<1, 0>>)}

Call_transform_inverse ==
    /\ calls = <<>>
    /\ \E L \in Ls, N \in Ns, s \in Samplings, re \in BOOLEAN :
         \E ns \in NsidesFor(s), a \in CoeffInputs(L, N) :
           Do("transform.inverse",
              [DefPar EXCEPT !.L = L, !.N = N, !.sampling = s,
                             !.reality = re, !.nside = ns],
              a, transform_inverse(a, L, N, s, re, ns))

Call_transform_forward ==
    /\ CanCall
    /\ \/ /\ calls = <<>>
          /\ \E L \in Ls, N \in Ns, s \in Samplings, re \in BOOLEAN :
               \E ns \in NsidesFor(s) : \E a \in PixelInputs(L, N, s, ns) :
                 Do("transform.forward",
                    [DefPar EXCEPT !.L = L, !.N = N, !.sampling = s,
                                   !.reality = re, !.nside = ns],
                    a, transform_forward(a, L, N, s, re, ns))
       \/ /\ Piped
          /\ Last.fn = "transform.inverse"
          /\ Do("transform.forward", Last.par, Last.ret.value,
                transform_forward(Last.ret.value, Last.par.L, Last.par.N,
                                  Last.par.sampling, Last.par.reality,
                                  Last.par.nside))

Call_jax_inverse ==
    /\ calls = <<>>
    /\ \E L \in Ls, N \in Ns, s \in Samplings, re \in BOOLEAN,
          me \in Methods, pc \in BOOLEAN :
         \E ns \in NsidesFor(s), a \in CoeffInputs(L, N) :
           Do("jax.inverse",
              [DefPar EXCEPT !.L = L, !.N = N, !.sampling = s, !.method = me,
                             !.reality = re, !.nside = ns, !.precomps = pc],
              a, jax_inverse(a, L, N, ns, s, me, re, pc))

Call_jax_forward ==
    /\ CanCall
    /\ \/ /\ calls = <<>>
          /\ \E L \in Ls, N \in Ns, s \in Samplings, re \in BOOLEAN,
                me \in Methods, pc \in BOOLEAN :
               \E ns \in NsidesFor(s) : \E a \in PixelInputs(L, N, s, ns) :
                 Do("jax.forward",
                    [DefPar EXCEPT !.L = L, !.N = N, !.sampling = s,
                                   !.method = me, !.reality = re,
                                   !.nside = ns, !.precomps = pc],
                    a, jax_forward(a, L, N, ns, s, me, re, pc))
       \/ /\ Piped
          /\ Last.fn = "jax.inverse"
          /\ Do("jax.forward", Last.par, Last.ret.value,
                jax_forward(Last.ret.value, Last.par.L, Last.par.N,
                            Last.par.nside, Last.par.sampling,
                            Last.par.method, Last.par.reality,
                            Last.par.precomps))

\* Pixel arrays handed to periodic_extension: the shape of the sampling,
\* and a larger one.
ExtensionInputs(L, sampling) ==
    IF ntheta(L, sampling).status # "ok" \/ nphi_equiang(L, sampling).status # "ok"
    THEN {Ramp(<<L, 2 * L - 1>>, <<1, 0>>)}
    ELSE LET nth == ntheta(L, sampling).tuple[1]
             nphi == nphi_equiang(L, sampling).tuple[1]
         IN {Ramp(<<nth, nphi>>, v) : v \in NZVals}
              \cup {Ramp(<<nth + 1, nphi + 1>>, <<1, 0>>)}

Call_periodic_extension ==
    /\ calls = <<>>
    /\ \E L \in Ls, spin \in Spins, s \in Samplings :
         \E a \in ExtensionInputs(L, s) :
           Do("periodic_extension",
              [DefPar EXCEPT !.L = L, !.spin = spin, !.sampling = s], a,
              periodic_extension(a, L, spin, s))

Call_unextend ==
    /\ CanCall
    /\ \/ /\ calls = <<>>
          /\ \E L \in Ls, s \in Samplings :
               \E a \in {Ramp(<<2 * L - 1, 2 * L - 1>>, <<1, 0>>),
                         Ramp(<<2 * L, 2 * L>>, <<0, 1>>)} :
                 Do("unextend", [DefPar EXCEPT !.L = L, !.sampling = s], a,
                    unextend(a, L, s))
       \/ /\ Piped
          /\ Last.fn = "periodic_extension"
          /\ Do("unextend", Last.par, Last.ret.value,
                unextend(Last.ret.value, Last.par.L, Last.par.sampling))

\* Resolutions of the HEALPix FFT calls: from nside = 2 on the polar rings
\* are shorter than the equatorial ones.
MaxRingNside == 2

Nsides == 1..MaxRingNside

\* Band-limits of the HEALPix FFT calls: below 2 * nside, equal to it and
\* above it, so that rings of length 2L and shorter rings both occur.
HealpixLs == 1..(2 * MaxRingNside + 1)

\* A real field of alternating sign.
Alternating(shape) ==
    Arr(shape, [i \in 1..Prod(shape) |-> <<Pow1(i - 1), 0>>])

\* Pixel arrays handed to healpix_fft: real and complex fields of the
\* 12 nside^2 pixels, and arrays one pixel short or long.
HealpixPixels(nside) ==
    LET npix == f_shape_healpix(nside)[1]
    IN {Ramp(<<npix>>, v) : v \in NZVals}
         \cup {Alternating(<<npix>>), Ramp(<<npix - 1>>, <<1, 0>>),
               Ramp(<<npix + 1>>, <<1, 0>>)}

\* Spectra handed to healpix_ifft: the shape of ftm_shape, one row more,
\* one column less.
HealpixSpectra(L, nside) ==
    LET shape == ftm_shape_healpix(L, nside)
    IN {Ramp(shape, v) : v \in NZVals}
         \cup {Ramp(<<shape[1] + 1, shape[2]>>, <<1, 0>>),
               Ramp(<<shape[1], shape[2] - 1>>, <<1, 0>>)}

Call_healpix_fft ==
    /\ calls = <<>>
    /\ \E L \in HealpixLs, nside \in Nsides, re \in BOOLEAN :
         \E f \in HealpixPixels(nside) :
           Do("healpix_fft",
              [DefPar EXCEPT !.L = L, !.nside = nside, !.reality = re], f,
              healpix_fft(f, L, nside, re))

Call_healpix_ifft ==
    /\ CanCall
    /\ \/ /\ calls = <<>>
          /\ \E L \in HealpixLs, nside \in Nsides, re \in BOOLEAN :
               \E ftm \in HealpixSpectra(L, nside) :
                 LET r == healpix_ifft(ftm, L, nside, re)
                 IN calls' = Append(calls,
                        Call("healpix_ifft",
                             [DefPar EXCEPT !.L = L, !.nside = nside,
                                            !.reality = re],
                             ftm, r.ret, r.after))
       \/ /\ Piped
          /\ Last.fn = "healpix_fft"
          /\ \E re \in BOOLEAN :
               LET r == healpix_ifft(Last.ret.value, Last.par.L,
                                     Last.par.nside, re)
               IN calls' = Append(calls,
                      Call("healpix_ifft", [Last.par EXCEPT !.reality = re],
                           Last.ret.value, r.ret, r.after))

\* Pixel arrays handed to the resampling functions: the shape the function
\* is documented for, and another one.
ResampleInputs(shape, other) ==
    {Ramp(shape, v) : v \in NZVals} \cup {Ramp(other, <<1, 0>>)}

Call_mw_to_mwss_theta ==
    /\ calls = <<>>
    /\ \E L \in Ls, spin \in Spins :
         \E f \in ResampleInputs(<<L, 2 * L - 1>>, <<L + 1, 2 * L>>) :
           Do("mw_to_mwss_theta", [DefPar EXCEPT !.L = L, !.spin = spin], f,
              mw_to_mwss_theta(f, L, spin))

Call_mw_to_mwss_phi ==
    /\ CanCall
    /\ \/ /\ calls = <<>>
          /\ \E L \in Ls :
               \E f \in ResampleInputs(<<L + 1, 2 * L - 1>>, <<L + 2, 2 * L - 1>>) :
                 Do("mw_to_mwss_phi", [DefPar EXCEPT !.L = L], f,
                    mw_to_mwss_phi(f, L))
       \/ /\ Piped
          /\ Last.fn = "mw_to_mwss_theta"
          /\ Do("mw_to_mwss_phi", Last.par, Last.ret.value,
                mw_to_mwss_phi(Last.ret.value, Last.par.L))

Call_mw_to_mwss ==
    /\ calls = <<>>
    /\ \E L \in Ls, spin \in Spins :
         \E f \in ResampleInputs(<<L, 2 * L - 1>>, <<L + 1, 2 * L>>) :
           Do("mw_to_mwss", [DefPar EXCEPT !.L = L, !.spin = spin], f,
              mw_to_mwss(f, L, spin))

Call_periodic_extension_spatial_mwss ==
    /\ calls = <<>>
    /\ \E L \in Ls, spin \in Spins :
         \E f \in ResampleInputs(<<L + 1, 2 * L>>, <<L, 2 * L - 1>>) :
           Do("periodic_extension_spatial_mwss",
              [DefPar EXCEPT !.L = L, !.spin = spin], f,
              periodic_extension_spatial_mwss(f, L, spin))

Call_upsample_by_two_mwss_ext ==
    /\ CanCall
    /\ \/ /\ calls = <<>>
          /\ \E L \in Ls :
               \E f \in ResampleInputs(<<2 * L, 2 * L>>, <<2 * L + 1, 2 * L>>) :
                 Do("upsample_by_two_mwss_ext", [DefPar EXCEPT !.L = L], f,
                    upsample_by_two_mwss_ext(f, L))
       \/ /\ Piped
          /\ Last.fn = "periodic_extension_spatial_mwss"
          /\ Do("upsample_by_two_mwss_ext", Last.par, Last.ret.value,
                upsample_by_two_mwss_ext(Last.ret.value, Last.par.L))

Call_upsample_by_two_mwss ==
    /\ calls = <<>>
    /\ \E L \in Ls, spin \in Spins :
         \E f \in ResampleInputs(<<L + 1, 2 * L>>, <<L, 2 * L - 1>>) :
           Do("upsample_by_two_mwss", [DefPar EXCEPT !.L = L, !.spin = spin],
              f, upsample_by_two_mwss(f, L, spin))

Call_spin_spherical_kernel ==
    /\ calls = <<>>
    /\ \E L \in Ls, spin \in Spins, re \in BOOLEAN, s \in Samplings,
          fw \in BOOLEAN :
         \E ns \in NsidesFor(s) :
           Do("spin_spherical_kernel",
              [DefPar EXCEPT !.L = L, !.spin = spin, !.reality = re,
                             !.sampling = s, !.nside = ns, !.forward = fw],
              NoArr, spin_spherical_kernel(L, spin, re, s, ns, fw))

Call_wigner_kernel ==
    /\ calls = <<>>
    /\ \E L \in Ls, N \in Ns, re \in BOOLEAN, s \in Samplings,
          fw \in BOOLEAN :
         \E ns \in NsidesFor(s) :
           Do("wigner_kernel",
              [DefPar EXCEPT !.L = L, !.N = N, !.reality = re,
                             !.sampling = s, !.nside = ns, !.forward = fw],
              NoArr, wigner_kernel(L, N, re, s, ns, fw))

Next ==
    \/ Call_f_shape
    \/ Call_nalpha
    \/ Call_nbeta
    \/ Call_elmn2ind
    \/ Call_flmn_3d_to_1d
    \/ Call_flmn_1d_to_3d
    \/ Call_spectral_folding
    \/ Call_spectral_periodic_extension
    \/ Call_transform_inverse
    \/ Call_transform_forward
    \/ Call_jax_inverse
    \/ Call_jax_forward
    \/ Call_unextend
    \/ Call_periodic_extension
    \/ Call_healpix_fft
    \/ Call_healpix_ifft
    \/ Call_mw_to_mwss_theta
    \/ Call_mw_to_mwss_phi
    \/ Call_mw_to_mwss
    \/ Call_periodic_extension_spatial_mwss
    \/ Call_upsample_by_two_mwss_ext
    \/ Call_upsample_by_two_mwss
    \/ Call_spin_spherical_kernel
    \/ Call_wigner_kernel

Spec == Init /\ [][Next]_vars

(***************************************************************************)
(* Properties.                                                             *)
(***************************************************************************)
CallIdx == 1..Len(calls)

PairIdx == 1..(Len(calls) - 1)

Support(L, N) ==
    {<<el, m, n>> : el \in 0..(L - 1), m \in (1 - L)..(L - 1),
                    n \in (1 - N)..(N - 1)} \ 
    {t \in (0..(L - 1)) \X ((1 - L)..(L - 1)) \X ((1 - N)..(N - 1)) :
        t[2] > t[1] \/ -t[2] > t[1]}

\* Lexicographic order on (n, el, m).
LexLess(s, t) ==
    \/ s[3] < t[3]
    \/ s[3] = t[3] /\ s[1] < t[1]
    \/ s[3] = t[3] /\ s[1] = t[1] /\ s[2] < t[2]

ZeroOutsideSupport(a, L) ==
    \A el \in 0..(a.shape[1] - 1), j \in 0..(a.shape[2] - 1),
       k \in 0..(a.shape[3] - 1) :
        (j - (L - 1) > el \/ (L - 1) - j > el)
            => a.data[Off3(a.shape, el, j, k)] = CZero

\* The number of bins k of the 2L-long buffer that fold onto bin j of the
\* nphi-long window starting at s = L - nphi // 2.
Multiplicity(j, nphi, L) ==
    Cardinality({k \in 0..(2 * L - 1) : (k - (L - nphi \div 2)) % nphi = j})

ExtendThenFold(i) ==
    /\ calls[i].fn = "spectral_periodic_extension"
    /\ calls[i + 1].fn = "spectral_folding"
    /\ calls[i].par.nphi >= 1 /\ calls[i].par.nphi <= 2 * calls[i].par.L
    /\ calls[i].arg.shape = <<calls[i].par.nphi>>

\* C2 (as claimed): folding the periodic extension of fm, 1 <= nphi <= 2L,
\* returns fm element by element.
C2_FoldExtendIdentity ==
    \A i \in PairIdx :
        ExtendThenFold(i) =>
            /\ calls[i + 1].ret.status = "ok"
            /\ calls[i + 1].ret.value = calls[i].arg

\* C2 (amended): the extension of an fm of length nphi, 1 <= nphi <= 2L,
\* succeeds, and folding it returns, in bin j, fm[j] times the number of
\* bins of the 2L-long buffer that alias onto j; that is fm itself exactly
\* when nphi = 2L.
C2_FoldExtendMultiplicity ==
    /\ \A i \in CallIdx :
         (/\ calls[i].fn = "spectral_periodic_extension"
          /\ calls[i].par.nphi <= 2 * calls[i].par.L
          /\ calls[i].arg.shape = <<calls[i].par.nphi>>)
            => /\ calls[i].ret.status = "ok"
               /\ calls[i].ret.value.shape = <<2 * calls[i].par.L>>
    /\ \A i \in PairIdx :
         ExtendThenFold(i) =>
            LET fm == calls[i].arg.data
                nphi == calls[i].par.nphi
                L == calls[i].par.L
            IN /\ calls[i + 1].ret.status = "ok"
               /\ calls[i + 1].ret.value =
                    Arr1([j \in 1..nphi |->
                            CScale(Multiplicity(j - 1, nphi, L), fm[j])])
               /\ (nphi = 2 * L => calls[i + 1].ret.value = calls[i].arg)

\* A ring shorter than 2L, with a non-zero spectrum, was extended and folded
\* back, and some bin came back multiplied.
C2_Witness ==
    /\ Len(calls) = 2
    /\ ExtendThenFold(1)
    /\ calls[1].par.nphi < 2 * calls[1].par.L
    /\ calls[1].par.nphi > 1
    /\ calls[2].ret.status = "ok"
    /\ \E j \in 1..calls[1].par.nphi :
         /\ calls[1].arg.data[j] # CZero
         /\ calls[2].ret.value.data[j] = CScale(2, calls[1].arg.data[j])

\* C3: the index conversions are inverse to each other: a 1D array of
\* length (2N-1)*L*L converted to 3D and back is returned unchanged, and a
\* 3D array of shape flmn_shape(L, N) that is zero for |m| > el converted to
\* 1D and back is returned unchanged; neither conversion fails on them.
C3_RoundTrip ==
    /\ \A i \in CallIdx :
         LET c == calls[i]
         IN /\ (c.fn = "flmn_1d_to_3d"
                  /\ c.arg.shape = <<flmn_shape_1d(c.par.L, c.par.N)>>)
                 => c.ret.status = "ok"
            /\ (c.fn = "flmn_3d_to_1d"
                  /\ c.arg.shape = flmn_shape(c.par.L, c.par.N))
                 => c.ret.status = "ok"
    /\ \A i \in PairIdx :
         LET c == calls[i]
             d == calls[i + 1]
         IN /\ (c.fn = "flmn_1d_to_3d" /\ d.fn = "flmn_3d_to_1d"
                  /\ c.arg.shape = <<flmn_shape_1d(c.par.L, c.par.N)>>)
                 => d.ret.status = "ok" /\ d.ret.value = c.arg
            /\ (c.fn = "flmn_3d_to_1d" /\ d.fn = "flmn_1d_to_3d"
                  /\ c.arg.shape = flmn_shape(c.par.L, c.par.N)
                  /\ ZeroOutsideSupport(c.arg, c.par.L))
                 => d.ret.status = "ok" /\ d.ret.value = c.arg

\* A 1D ramp of distinct entries, for L > 1 and N > 1, went to 3D and back.
C3_Witness ==
    /\ Len(calls) = 2
    /\ calls[1].fn = "flmn_1d_to_3d" /\ calls[2].fn = "flmn_3d_to_1d"
    /\ calls[1].par.L > 1 /\ calls[1].par.N > 1
    /\ calls[1].arg = Ramp(<<flmn_shape_1d(calls[1].par.L, calls[1].par.N)>>, <<1, 0>>)
    /\ calls[2].ret.status = "ok"

\* C4: elmn2ind returns (N-1+n)*L*L + el*el + el + m, maps the support
\* onto 0 .. flmn_shape_1d(L, N) - 1 one to one, and is strictly increasing
\* in the lexicographic order (n, el, m).
C4_Elmn2indBijection ==
    \A i \in CallIdx :
        LET c == calls[i]
            L == c.par.L
            N == c.par.N
            S == Support(L, N)
            here == <<c.par.el, c.par.m, c.par.n>>
            ind(t) == elmn2ind(t[1], t[2], t[3], L, N)
        IN c.fn = "elmn2ind" =>
            /\ c.ret.status = "ok"
            /\ c.ret.tuple =
                 <<(N - 1 + c.par.n) * L * L + c.par.el * c.par.el + c.par.el + c.par.m>>
            /\ c.ret.tuple[1] \in 0..(flmn_shape_1d(L, N) - 1)
            /\ \A t \in S : LexLess(here, t) => c.ret.tuple[1] < ind(t)
            /\ \A t \in S : LexLess(t, here) => ind(t) < c.ret.tuple[1]
            /\ {ind(t) : t \in S} = 0..(flmn_shape_1d(L, N) - 1)
            /\ Cardinality(S) = flmn_shape_1d(L, N)

\* elmn2ind was called on an interior triple, with neighbours on both sides.
C4_Witness ==
    /\ Len(calls) = 1
    /\ calls[1].fn = "elmn2ind"
    /\ calls[1].par.L > 1 /\ calls[1].par.N > 1
    /\ calls[1].par.el = 1 /\ calls[1].par.m = 0 /\ calls[1].par.n = 0
    /\ calls[1].ret.tuple = <<calls[1].par.L * calls[1].par.L + 2>>

\* The pixel shapes (L, N, sampling, nside) determine: the one f_shape
\* gives and the [gamma, beta, alpha] one.
RightPixelShapes(par) ==
    {SphereShape(par.L, par.sampling, par.nside) \o <<2 * par.N - 1>>,
     <<2 * par.N - 1>> \o SphereShape(par.L, par.sampling, par.nside)}

WignerInverses == {"transform.inverse", "jax.inverse"}

WignerForwards == {"transform.forward", "jax.forward"}

\* C7 (as claimed): the conversions and the Wigner transforms fail on an
\* array whose shape is not the one (L, N, sampling, nside) determines.
C7_ShapeMismatchFails ==
    \A i \in CallIdx :
        LET c == calls[i]
        IN /\ (c.fn \in {"flmn_3d_to_1d"} \cup WignerInverses
                 /\ c.arg.shape # flmn_shape(c.par.L, c.par.N))
                => c.ret.status # "ok"
           /\ (c.fn = "flmn_1d_to_3d"
                 /\ c.arg.shape # <<flmn_shape_1d(c.par.L, c.par.N)>>)
                => c.ret.status # "ok"
           /\ (c.fn \in WignerForwards /\ c.arg.shape \notin RightPixelShapes(c.par))
                => c.ret.status # "ok"

\* C8: flmn_3d_to_1d raises ValueError on a 1-dimensional array and on any
\* array that is not 3-dimensional, flmn_1d_to_3d raises ValueError on a
\* 3-dimensional array and on any array that is not 1-dimensional, and
\* neither returns an array then.
C8_WrongConventionRejected ==
    \A i \in CallIdx :
        LET c == calls[i]
            ndim == Len(c.arg.shape)
        IN /\ (c.fn = "flmn_3d_to_1d" /\ ndim = 1)
                => c.ret = Raise("ValueError", "already 1D")
           /\ (c.fn = "flmn_3d_to_1d" /\ ndim \notin {1, 3})
                => c.ret = Raise("ValueError", "cannot convert to 1D")
           /\ (c.fn = "flmn_1d_to_3d" /\ ndim = 3)
                => c.ret = Raise("ValueError", "already 3D")
           /\ (c.fn = "flmn_1d_to_3d" /\ ndim \notin {1, 3})
                => c.ret = Raise("ValueError", "cannot convert to 3D")

\* A 1D array was converted to 3D and the 3D result was handed to
\* flmn_1d_to_3d again, which refused it.
C8_Witness ==
    /\ Len(calls) = 2
    /\ calls[1].fn = "flmn_1d_to_3d" /\ calls[1].ret.status = "ok"
    /\ calls[2].fn = "flmn_1d_to_3d"
    /\ Len(calls[2].arg.shape) = 3
    /\ calls[2].ret.status = "ValueError"

\* Entry (el, m, n) of an [L, 2L-1, 2N-1] coefficient array.
Coeff(a, L, N, el, m, n) == a.data[Off3(a.shape, el, L - 1 + m, N - 1 + n)]

\* The forward result recovers the coefficients that were synthesised into
\* the pixel array mid: entry (el, m, n) is the coefficient (el, m) of the
\* order-n slot of mid, unconjugated, with the signs of the two transforms
\* cancelling, wherever the input is supported, and zero elsewhere.
Recovers(out, mid, in, L, N) ==
    /\ out.shape = in.shape
    /\ \A el \in 0..(L - 1), m \in (1 - L)..(L - 1), n \in (1 - N)..(N - 1) :
        LET e == Coeff(out, L, N, el, m, n)
        IN IF Abs(m) <= el /\ Abs(n) <= el
           THEN /\ Len(e) = 1
                /\ e[1].n = n /\ e[1].el = el /\ e[1].m = m
                /\ e[1].src = N - 1 + n
                /\ mid.slots[N + n] = <<[n |-> n, sgn |-> e[1].sgn]>>
                /\ ~e[1].conj
           ELSE e = <<>>

ZeroOutsideWignerSupport(a, L, N) ==
    \A el \in 0..(L - 1), m \in (1 - L)..(L - 1), n \in (1 - N)..(N - 1) :
        (Abs(m) > el \/ Abs(n) > el) => Coeff(a, L, N, el, m, n) = CZero

\* C1 (as claimed): inverse of wigner/transform.py, called as in the round
\* trip (reality left False), completes on supported coefficients of shape
\* flmn_shape(L, N) for a sampling f_shape supports, and forward of its
\* result completes and recovers the coefficients.
C1_WignerRoundTrip ==
    \A i \in CallIdx :
        LET c == calls[i]
        IN (/\ c.fn = "transform.inverse"
            /\ ~c.par.reality
            /\ c.par.sampling \in {"mw", "mwss", "dh"}
            /\ c.arg.shape = flmn_shape(c.par.L, c.par.N)
            /\ ZeroOutsideWignerSupport(c.arg, c.par.L, c.par.N))
           => /\ c.ret.status = "ok"
              /\ (i + 1 \in CallIdx /\ calls[i + 1].fn = "transform.forward")
                   => /\ calls[i + 1].ret.status = "ok"
                      /\ Recovers(calls[i + 1].ret.value, c.ret.value,
                                  c.arg, c.par.L, c.par.N)

\* The entry points that take a sampling string.
SamplingEntryPoints ==
    {"f_shape", "_nalpha", "_nbeta", "unextend", "spin_spherical_kernel",
     "wigner_kernel"} \cup WignerInverses \cup WignerForwards

\* C5 (as claimed): every entry point that takes a sampling string raises
\* ValueError (AxisError is one), and returns nothing, when the string is
\* outside {mw, mwss, dh, healpix} in any letter case.
C5_UnknownSamplingRaisesValueError ==
    \A i \in CallIdx :
        LET c == calls[i]
        IN (c.fn \in SamplingEntryPoints
              /\ Lower(c.par.sampling) \notin SphereSamplings)
           => /\ c.ret.status \in {"ValueError", "AxisError"}
              /\ c.ret.value = NoArr /\ c.ret.tuple = <<>>

\* C6: inverse and forward of jax_transforms/wigner.py return what
\* inverse_numpy / forward_numpy return when method is "numpy", what
\* inverse_jax / forward_jax return when method is "jax", and for every
\* other method raise ValueError for the method, having run neither
\* implementation and returning nothing.
C6_MethodDispatch ==
    \A i \in CallIdx :
        LET c == calls[i]
            p == c.par
            viaNumpy == IF c.fn = "jax.inverse"
                        THEN inverse_numpy(c.arg, p.L, p.N, p.nside,
                                p.sampling, p.reality, p.precomps)
                        ELSE forward_numpy(c.arg, p.L, p.N, p.nside,
                                p.sampling, p.reality, p.precomps)
            viaJax == IF c.fn = "jax.inverse"
                      THEN inverse_jax(c.arg, p.L, p.N, p.nside, p.sampling,
                                p.reality, p.precomps)
                      ELSE forward_jax(c.arg, p.L, p.N, p.nside, p.sampling,
                                p.reality, p.precomps)
        IN c.fn \in {"jax.inverse", "jax.forward"}
           => IF p.method = "numpy"
              THEN c.ret = [viaNumpy EXCEPT !.impl = "numpy"]
              ELSE IF p.method = "jax"
              THEN c.ret = [viaJax EXCEPT !.impl = "jax"]
              ELSE /\ c.ret.status = "ValueError" /\ c.ret.why = "method"
                   /\ c.ret.impl = "none" /\ c.ret.value = NoArr

\* forward was called with an unrecognised method on an input that the
\* numpy implementation transforms, and raised for the method.
C6_Witness ==
    /\ Len(calls) = 1
    /\ calls[1].fn = "jax.forward"
    /\ calls[1].par.method = "torch"
    /\ forward_numpy(calls[1].arg, calls[1].par.L, calls[1].par.N,
                     calls[1].par.nside, calls[1].par.sampling,
                     calls[1].par.reality, calls[1].par.precomps).status = "ok"
    /\ calls[1].ret.status = "ValueError"

\* flmn[l, -m, -n] == (-1)^(m+n) * conj(flmn[l, m, n]) for 0 < n <= N-1.
RealitySymmetric(a, L, N) ==
    \A el \in 0..(L - 1), m \in (1 - L)..(L - 1), n \in 1..(N - 1) :
        Coeff(a, L, N, el, -m, -n)
            = ESign(Pow1(m + n), EConj(Coeff(a, L, N, el, m, n)))

\* C9 (as claimed): forward with reality=True, on a pixel array of the
\* shape its module expects and with precomps given, completes with
\* coefficients of shape flmn_shape(L, N) that have the reality symmetry.
C9_RealitySymmetry ==
    \A i \in CallIdx :
        LET c == calls[i]
        IN (/\ c.fn \in WignerForwards
            /\ c.par.reality /\ c.par.N > 1
            /\ c.par.sampling \in {"mw", "mwss", "dh"}
            /\ c.arg.shape \in RightPixelShapes(c.par)
            /\ c.fn = "jax.forward" => c.par.precomps /\ c.par.method # "torch")
           => /\ c.ret.status = "ok"
              /\ c.ret.value.shape = flmn_shape(c.par.L, c.par.N)
              /\ RealitySymmetric(c.ret.value, c.par.L, c.par.N)

\* C10: spin_spherical_kernel called with reality=True and spin != 0 warns
\* and returns (or raises) exactly what the same call with reality=False
\* does; a kernel it returns has the full order axis of length 2L-1.
C10_RealityDowngrade ==
    \A i \in CallIdx :
        LET c == calls[i]
            p == c.par
        IN (c.fn = "spin_spherical_kernel" /\ p.reality /\ p.spin # 0)
           => /\ c.ret.warned
              /\ c.ret = [spin_spherical_kernel(p.L, p.spin, FALSE,
                            p.sampling, p.nside, p.forward)
                            EXCEPT !.warned = TRUE]
              /\ c.ret.status = "ok" => c.ret.value.shape[3] = 2 * p.L - 1
              /\ c.ret.status # "ok" => c.ret.why = "sampling"

\* A kernel was built for L = 2 with reality=True and spin 1: it has three
\* orders per degree, and a warning was given.
C10_Witness ==
    /\ Len(calls) = 1
    /\ calls[1].fn = "spin_spherical_kernel"
    /\ calls[1].par.reality /\ calls[1].par.spin = 1 /\ calls[1].par.L = 2
    /\ calls[1].ret.status = "ok" /\ calls[1].ret.warned
    /\ calls[1].ret.value.shape = <<2, 2, 3>>

\* C11 (as claimed): f_shape returns the shape with gamma leading,
\* (2N-1, n_beta, n_alpha), so that the axis the order slot N-1+n indexes
\* in jax_transforms/wigner.py (the leading one) has length 2N-1.
C11_GammaAxisLeads ==
    \A i \in CallIdx :
        LET c == calls[i]
        IN (c.fn = "f_shape" /\ c.ret.status = "ok")
           => /\ c.ret.tuple = <<_ngamma(c.par.N),
                                 _nbeta(c.par.L, c.par.sampling).tuple[1],
                                 _nalpha(c.par.L, c.par.sampling).tuple[1]>>
              /\ c.ret.tuple[1] = 2 * c.par.N - 1

\* C12 (as claimed): for each of the four sampling schemes the shape call
\* the Wigner transforms make, f_shape(L, N, sampling, nside), returns a
\* shape, and no Wigner inverse or forward fails at shape computation.
C12_FourSchemesAccepted ==
    \A i \in CallIdx :
        LET c == calls[i]
        IN (c.fn \in WignerInverses \cup WignerForwards
              /\ c.par.sampling \in SphereSamplings)
           => /\ f_shape_call(<<c.par.L, c.par.N, c.par.sampling,
                                c.par.nside>>).status = "ok"
              /\ c.ret.why \notin {"f_shape arity", "sampling"}

\* C13 (as claimed): a Wigner inverse or forward of jax_transforms called
\* with precomps left None never fails for the absence of precomps, and
\* completes wherever the same call with precomps given completes.
C13_PrecompsOptional ==
    \A i \in CallIdx :
        LET c == calls[i]
            p == c.par
            given == IF c.fn = "jax.inverse"
                     THEN jax_inverse(c.arg, p.L, p.N, p.nside, p.sampling,
                                      p.method, p.reality, TRUE)
                     ELSE jax_forward(c.arg, p.L, p.N, p.nside, p.sampling,
                                      p.method, p.reality, TRUE)
        IN (c.fn \in {"jax.inverse", "jax.forward"} /\ ~p.precomps)
           => /\ c.ret.why # "precomps is None"
              /\ given.status = "ok" => c.ret.status = "ok"

\* C14: for sampling "mw" or "mwss", any spin and a pixel array f of the
\* shape of the sampling, periodic_extension leaves rows 0 .. ntheta-1 as
\* they are in f, and unextend of its result is f.
C14_ExtendThenUnextend ==
    \A i \in CallIdx :
        LET c == calls[i]
            nth == ntheta(c.par.L, c.par.sampling).tuple[1]
            nphi == nphi_equiang(c.par.L, c.par.sampling).tuple[1]
        IN (/\ c.fn = "periodic_extension"
            /\ c.par.sampling \in {"mw", "mwss"}
            /\ c.arg.shape = <<nth, nphi>>)
           => /\ c.ret.status = "ok"
              /\ SubSeq(c.ret.value.data, 1, nth * nphi) = c.arg.data
              /\ (i + 1 \in CallIdx /\ calls[i + 1].fn = "unextend")
                   => /\ calls[i + 1].ret.status = "ok"
                      /\ calls[i + 1].ret.value = c.arg

\* An mwss array for L = 2 and spin 1 was extended, which wrote a reflected
\* row below it, and truncated back.
C14_Witness ==
    /\ Len(calls) = 2
    /\ calls[1].fn = "periodic_extension" /\ calls[2].fn = "unextend"
    /\ calls[1].par.sampling = "mwss" /\ calls[1].par.L = 2
    /\ calls[1].par.spin = 1
    /\ calls[1].arg.shape = <<3, 4>>
    /\ calls[1].ret.value.shape = <<4, 4>>
    /\ calls[1].ret.value.data[13] # CZero
    /\ calls[2].ret.value = calls[1].arg

\* C18: for nphi <= 2L and fm of length nphi, spectral_periodic_extension
\* returns an array of length 2L whose entry k is fm[(k - s) mod nphi],
\* s = L - nphi // 2, for every k in 0 .. 2L-1.
C18_ExtensionPeriodic ==
    \A i \in CallIdx :
        LET c == calls[i]
            s == c.par.L - c.par.nphi \div 2
        IN (/\ c.fn = "spectral_periodic_extension"
            /\ c.par.nphi <= 2 * c.par.L
            /\ c.arg.shape = <<c.par.nphi>>)
           => /\ c.ret.status = "ok"
              /\ c.ret.value.shape = <<2 * c.par.L>>
              /\ \A k \in 0..(2 * c.par.L - 1) :
                    c.ret.value.data[k + 1]
                        = c.arg.data[((k - s) % c.par.nphi) + 1]

\* A ring of 3 non-zero bins was extended to 2L = 4 bins: the bin below the
\* window holds the last bin of the ring.
C18_Witness ==
    /\ Len(calls) = 1
    /\ calls[1].fn = "spectral_periodic_extension"
    /\ calls[1].par.L = 2 /\ calls[1].par.nphi = 3
    /\ calls[1].arg.shape = <<3>>
    /\ \A j \in 1..3 : calls[1].arg.data[j] # CZero
    /\ calls[1].arg.data[3] # calls[1].arg.data[1]
    /\ calls[1].ret.status = "ok"
    /\ calls[1].ret.value.data[1] = calls[1].arg.data[3]

\* The sum of the entries of a sequence of complex numbers.
RECURSIVE CSum(_)
CSum(seq) == IF seq = <<>> THEN CZero ELSE CAdd(Head(seq), CSum(Tail(seq)))

\* The sum of fm[k] over the k in 0 .. len(fm)-1 that alias onto bin j.
AliasedSum(fm, j, nphi, L) ==
    CSum([k \in 1..Len(fm) |->
            IF (k - 1 - (L - nphi \div 2)) % nphi = j THEN fm[k] ELSE CZero])

\* C19 (as claimed): for 1 <= nphi <= 2L and fm of any length,
\* spectral_folding returns nphi bins, bin j being the sum of the fm[k]
\* with (k - s) mod nphi = j, s = L - nphi // 2, so that the bins of the
\* result and the bins of fm have the same sum.
C19_FoldingAdditive ==
    \A i \in CallIdx :
        LET c == calls[i]
        IN (/\ c.fn = "spectral_folding"
            /\ c.par.nphi <= 2 * c.par.L)
           => /\ c.ret.status = "ok"
              /\ c.ret.value.shape = <<c.par.nphi>>
              /\ \A j \in 0..(c.par.nphi - 1) :
                    c.ret.value.data[j + 1]
                        = AliasedSum(c.arg.data, j, c.par.nphi, c.par.L)
              /\ CSum(c.ret.value.data) = CSum(c.arg.data)

\* C17 (as claimed): in jax_transforms/wigner.py the coefficients have shape
\* [2N-1, L, 2L-1]: that is the shape flmn_shape gives and forward returns,
\* and no order slot N-1+n, N-1-n falls outside the leading axis.
C17_OrderAxisLeads ==
    \A i \in CallIdx :
        LET c == calls[i]
        IN c.fn \in {"jax.inverse", "jax.forward"}
           => /\ flmn_shape(c.par.L, c.par.N)
                    = <<2 * c.par.N - 1, c.par.L, 2 * c.par.L - 1>>
              /\ c.ret.why # "flmn index"
              /\ (c.fn = "jax.forward" /\ c.ret.status = "ok")
                    => c.ret.value.shape
                         = <<2 * c.par.N - 1, c.par.L, 2 * c.par.L - 1>>

\* The value of index when the loop of healpix_fft / healpix_ifft reaches
\* ring t: the lengths of the rings before it.
RECURSIVE RingStart(_, _)
RingStart(t, nside) ==
    IF t = 0 THEN 0
    ELSE RingStart(t - 1, nside) + nphi_ring(t - 1, nside).tuple[1]

RingLen(t, nside) == nphi_ring(t, nside).tuple[1]

Rings(nside) == 0..(ftm_shape_healpix(1, nside)[1] - 1)

IsRealField(a) ==
    \A k \in 1..Len(a.data) : Len(a.data[k]) = 2 /\ a.data[k][2] = 0

\* Pixels start + 1 .. start + n of a flat array.
Range(data, start, n) == [k \in 1..n |-> data[start + k]]

HealpixRan(c) ==
    /\ c.fn \in {"healpix_fft", "healpix_ifft"}
    /\ c.par.L >= 2 * c.par.nside

\* C16: for a real field and every ring with nphi = 2L, healpix_fft returns
\* the same ring spectrum with reality=True as with reality=False, and
\* healpix_ifft, given the spectrum healpix_fft produced for that field,
\* returns the same ring pixels with reality=True as with reality=False.
C16_RealityAgreesWithComplex ==
    \A i \in CallIdx :
      LET c == calls[i]
          L == c.par.L
          nside == c.par.nside
          FullRings == {t \in Rings(nside) : RingLen(t, nside) = 2 * L}
      IN /\ (c.fn = "healpix_fft" /\ IsRealField(c.arg) /\ c.ret.status = "ok")
             => LET other == healpix_fft(c.arg, L, nside, ~c.par.reality)
                IN /\ other.status = "ok"
                   /\ \A t \in FullRings :
                        Row2(c.ret.value, t) = Row2(other.value, t)
         /\ (/\ c.fn = "healpix_ifft" /\ i > 1 /\ c.ret.status = "ok"
             /\ calls[i - 1].fn = "healpix_fft"
             /\ IsRealField(calls[i - 1].arg))
             => LET other == healpix_ifft(c.arg, L, nside, ~c.par.reality).ret
                IN /\ other.status = "ok"
                   /\ \A t \in FullRings :
                        Range(c.ret.value.data, RingStart(t, nside), 2 * L)
                          = Range(other.value.data, RingStart(t, nside), 2 * L)

\* The spectrum row healpix_fft writes for ring t when it reads the pixels
\* [RingStart(t), RingStart(t) + nphi) of f.
RingSpectrum(f, t, L, nside) ==
    LET nphi == RingLen(t, nside)
        fm_chunk == FftRow(Range(f.data, RingStart(t, nside), nphi))
    IN IF nphi = 2 * L THEN fm_chunk
       ELSE spectral_periodic_extension(fm_chunk, nphi, L).value.data

\* The pixels healpix_ifft computes for ring t from row t of ftm.
RingPixels(ftm, t, L, nside, reality) ==
    LET nphi == RingLen(t, nside)
    IN IF nphi = 2 * L
       THEN IF reality THEN IrfftForward(Row2(ftm, t), nphi)
            ELSE IfftForward(Row2(ftm, t))
       ELSE IfftForward(spectral_folding(Row2(ftm, t), nphi, L).ret.value.data)

\* C20: in healpix_fft and healpix_ifft with L >= 2 * nside the rings are
\* visited in increasing t; ring t reads (healpix_fft) or writes
\* (healpix_ifft) exactly the pixels [RingStart(t), RingStart(t) + nphi(t));
\* these ranges are pairwise disjoint and cover each of the 12 nside^2 pixels
\* once; every ring has nphi <= 2L, and no AssertionError is raised.
C20_RingsPartitionPixels ==
    \A i \in CallIdx :
      LET c == calls[i]
          L == c.par.L
          nside == c.par.nside
          npix == f_shape_healpix(nside)[1]
          InRing(p, t) ==
              RingStart(t, nside) < p /\ p <= RingStart(t, nside) + RingLen(t, nside)
      IN HealpixRan(c) =>
           /\ c.ret.status # "AssertionError"
           /\ \A t \in Rings(nside) : RingLen(t, nside) <= 2 * L
           /\ \A t, u \in Rings(nside) :
                t < u => RingStart(t, nside) + RingLen(t, nside) <= RingStart(u, nside)
           /\ \A p \in 1..npix :
                Cardinality({t \in Rings(nside) : InRing(p, t)}) = 1
           /\ (c.fn = "healpix_fft" /\ c.ret.status = "ok") =>
                \A t \in Rings(nside) :
                  Row2(c.ret.value, t) = RingSpectrum(c.arg, t, L, nside)
           /\ (c.fn = "healpix_ifft" /\ c.ret.status = "ok") =>
                /\ Len(c.ret.value.data) = npix
                /\ \A t \in Rings(nside) :
                     Range(c.ret.value.data, RingStart(t, nside), RingLen(t, nside))
                       = RingPixels(c.arg, t, L, nside, c.par.reality)

\* A transform of a resolution with polar rings shorter than the equatorial
\* ones, of a field of distinct pixels, that succeeded.
C20_Witness ==
    \E i \in CallIdx :
      /\ HealpixRan(calls[i])
      /\ calls[i].par.nside > 1
      /\ calls[i].ret.status = "ok"
      /\ calls[i].fn = "healpix_ifft"
      /\ i > 1 /\ calls[i - 1].arg = Ramp(<<f_shape_healpix(calls[i].par.nside)[1]>>, <<1, 0>>)

\* C25: spectral_folding and healpix_ifft leave their input unchanged: after
\* the call the array holds the values it held before, so a second call
\* with the same array returns the same result (also for rings with
\* nphi < 2L, where folding adds aliased bins).
C25_InputUnchanged ==
    \A i \in CallIdx :
      LET c == calls[i]
      IN /\ c.fn = "spectral_folding" =>
              /\ c.after = c.arg
              /\ spectral_folding(c.after.data, c.par.nphi, c.par.L).ret = c.ret
         /\ c.fn = "healpix_ifft" =>
              /\ c.after = c.arg
              /\ healpix_ifft(c.after, c.par.L, c.par.nside, c.par.reality).ret
                   = c.ret

\* C22: the leading axis of a wigner_kernel has length 2N-1 with
\* reality=False, order n = -(N-1) .. N-1 stored at index N-1+n, and length
\* N with reality=True, only n = 0 .. N-1 computed and stored at index n;
\* every index of the axis belongs to exactly one n of the loop, no index is
\* out of bounds, every stored slice is the one of its order, and all
\* entries with degree el < |n| are zero.
C22_KernelOrderAxis ==
    \A i \in CallIdx :
      LET c == calls[i]
          L == c.par.L
          N == c.par.N
          re == c.par.reality
          n_dim == IF re THEN N ELSE 2 * N - 1
          Orders == IF re THEN 0..(N - 1) ELSE (1 - N)..(N - 1)
          OrderAt(ind) == IF re THEN ind ELSE ind - (N - 1)
      IN c.fn = "wigner_kernel" =>
           /\ c.ret.status # "IndexError"
           /\ KernelOrders(N, re) = Orders
           /\ \A n \in Orders : KernelInd(n, N, re) \in 0..(n_dim - 1)
           /\ \A ind \in 0..(n_dim - 1) :
                {n \in Orders : KernelInd(n, N, re) = ind} = {OrderAt(ind)}
           /\ c.ret.status = "ok" =>
                LET shape == c.ret.value.shape
                    dl == c.ret.value.data
                IN /\ shape[1] = n_dim /\ shape[3] = L /\ shape[4] = 2 * L - 1
                   /\ \A k \in 1..Len(dl) :
                        LET ind == (k - 1) \div (shape[2] * shape[3] * shape[4])
                            el == ((k - 1) \div shape[4]) % shape[3]
                            m == ((k - 1) % shape[4]) - (L - 1)
                            n == OrderAt(ind)
                        IN /\ el < Abs(n) => dl[k] = <<>>
                           /\ dl[k] # <<>> => dl[k][1].mm = n /\ dl[k][1].el = el
                           /\ (el >= Abs(n) /\ Abs(m) <= el) => dl[k] # <<>>

\* Kernels for L = 2, N = 2 were built: one with reality=True (two order
\* slots) or one with reality=False (three).
C22_Witness ==
    \E i \in CallIdx :
      /\ calls[i].fn = "wigner_kernel" /\ calls[i].ret.status = "ok"
      /\ calls[i].par.L = 2 /\ calls[i].par.N = 2 /\ calls[i].par.reality
      /\ calls[i].ret.value.shape[1] = 2
      /\ \E k \in 1..Len(calls[i].ret.value.data) :
           /\ calls[i].ret.value.data[k] # <<>>
           /\ calls[i].ret.value.data[k][1].mm = 1

\* C23: a spin_spherical_kernel has shape [ntheta, L, m_dim]: m_dim = L
\* (orders m = 0 .. L-1) when reality is in effect with spin 0 and 2L-1
\* otherwise; ntheta is the ring count of the MWSS grid of band-limit 2L for
\* a forward kernel of an mw or mwss sampling (in any letter case) and the
\* ring count of the requested grid at band-limit L otherwise; the weights
\* of a forward kernel have ntheta entries; entries of degree el < |spin|
\* are zero.
C23_KernelShapeSupport ==
    \A i \in CallIdx :
      LET c == calls[i]
          p == c.par
          L == p.L
          real == p.reality /\ p.spin = 0
          m_dim == IF real THEN L ELSE 2 * L - 1
          doubled == p.forward /\ Lower(p.sampling) \in {"mw", "mwss"}
          rings == IF doubled THEN thetas(2 * L, "mwss", 0).tuple[1]
                    ELSE thetas(L, p.sampling, p.nside).tuple[1]
      IN c.fn = "spin_spherical_kernel" =>
           /\ c.ret.status = "ok" <=> Lower(p.sampling) \in SphereSamplings
           /\ c.ret.status = "ok" =>
                LET dl == c.ret.value.data
                IN /\ c.ret.value.shape = <<rings, L, m_dim>>
                   /\ p.forward =>
                        quad_weights_transform(L, IF doubled THEN "mwss" ELSE p.sampling,
                                               p.nside).tuple = <<rings>>
                   /\ \A k \in 1..Len(dl) :
                        LET el == ((k - 1) \div m_dim) % L
                            col == (k - 1) % m_dim
                            m == IF real THEN col ELSE col - (L - 1)
                        IN /\ el < Abs(p.spin) => dl[k] = <<>>
                           /\ dl[k] # <<>> =>
                                /\ dl[k][1].m = m /\ dl[k][1].el = el
                                /\ dl[k][1].t = (k - 1) \div (L * m_dim)
                                /\ dl[k][1].weighted = p.forward
                           /\ (el >= Abs(p.spin) /\ Abs(m) <= el) => dl[k] # <<>>

\* A forward kernel for the sampling "MW", L = 2, spin 0 and reality=True
\* was built on the five rings of the MWSS grid of band-limit 4.
C23_Witness ==
    \E i \in CallIdx :
      /\ calls[i].fn = "spin_spherical_kernel" /\ calls[i].ret.status = "ok"
      /\ calls[i].par.forward /\ calls[i].par.sampling = "MW"
      /\ calls[i].par.L = 2 /\ calls[i].par.spin = 0 /\ calls[i].par.reality
      /\ calls[i].ret.value.shape = <<5, 2, 2>>

\* The line w of a zero-padded centred spectrum holds the spectrum of the
\* line px: zero at the positions of zeros, elsewhere the coefficient of px
\* whose signed frequency is the one the position stands for in a centred
\* spectrum of Len(w) bins, every frequency of px once.
PaddedLine(w, px, zeros) ==
    LET kept == {k \in 1..Len(w) : (k - 1) \notin zeros}
    IN /\ \A k \in 1..Len(w) : (k - 1) \in zeros => w[k] = CZero
       /\ \A k \in kept :
            /\ Len(w[k]) = 1
            /\ w[k][1].px = px
            /\ w[k][1].freq = CentredFreq(k - 1, Len(w))
       /\ Cardinality(kept) = Len(px)
       /\ {w[k][1].freq : k \in kept}
            = {CentredFreq(j, Len(px)) : j \in 0..(Len(px) - 1)}

\* Entry (r, c) of the result of an inverse FFT along an axis is the formal
\* pixel of its line of the padded spectrum.
PixelOf(c, r, col) ==
    LET e == c.ret.value.data[r * c.ret.value.shape[2] + col + 1]
    IN IF Len(e) = 3 /\ e[1] = "ifft_forward" THEN e[2] ELSE <<>>

\* C24: zero-padding in the resampling layer preserves the signed
\* frequency.  In mw_to_mwss_theta (2L-1 -> 2L rows), mw_to_mwss_phi
\* (2L-1 -> 2L columns) and upsample_by_two_mwss_ext (2L -> 4L rows) each
\* bin of the centred input spectrum is at the output index of the same
\* signed frequency, the other bins (index 0, respectively rows 0 .. L-1 and
\* 3L .. 4L-1) are zero, no bin is dropped or duplicated; mw_to_mwss maps
\* shape (L, 2L-1) to (L+1, 2L) and upsample_by_two_mwss (L+1, 2L) to
\* (2L+1, 2L).
C24_PaddingKeepsFrequency ==
    \A i \in CallIdx :
      LET c == calls[i]
          L == c.par.L
          shape == c.ret.value.shape
      IN /\ (c.fn = "mw_to_mwss_theta" /\ c.arg.shape = <<L, 2 * L - 1>>) =>
              /\ c.ret.status = "ok" /\ shape = <<L + 1, 2 * L - 1>>
              /\ \A r \in 0..L, col \in 0..(2 * L - 2) :
                   LET w == PixelOf(c, r, col)
                       ext == periodic_extension(c.arg, L, c.par.spin, "mw").value
                   IN /\ Len(w) = 2 * L
                      /\ PaddedLine(w, Col(ext, col), {0})
                      /\ \A k \in 2..(2 * L) : w[k][1].phase = <<w[k][1].freq>>
         /\ (c.fn = "mw_to_mwss_phi" /\ c.arg.shape = <<L + 1, 2 * L - 1>>) =>
              /\ c.ret.status = "ok" /\ shape = <<L + 1, 2 * L>>
              /\ \A r \in 0..L, col \in 0..(2 * L - 1) :
                   LET w == PixelOf(c, r, col)
                   IN Len(w) = 2 * L /\ PaddedLine(w, Row2(c.arg, r), {0})
         /\ (c.fn = "upsample_by_two_mwss_ext" /\ c.arg.shape = <<2 * L, 2 * L>>) =>
              /\ c.ret.status = "ok" /\ shape = <<4 * L, 2 * L>>
              /\ \A r \in 0..(4 * L - 1), col \in 0..(2 * L - 1) :
                   LET w == PixelOf(c, r, col)
                   IN /\ Len(w) = 4 * L
                      /\ PaddedLine(w, Col(c.arg, col),
                                    (0..(L - 1)) \cup ((3 * L)..(4 * L - 1)))
         /\ (c.fn = "mw_to_mwss" /\ c.arg.shape = <<L, 2 * L - 1>>) =>
              c.ret.status = "ok" /\ shape = <<L + 1, 2 * L>>
         /\ (c.fn = "upsample_by_two_mwss" /\ c.arg.shape = <<L + 1, 2 * L>>) =>
              c.ret.status = "ok" /\ shape = <<2 * L + 1, 2 * L>>

\* The spectrum of a 4 x 4 extended field was placed in 8 rows.
C24_Witness ==
    \E i \in CallIdx :
      /\ calls[i].fn = "upsample_by_two_mwss_ext" /\ calls[i].par.L = 2
      /\ calls[i].arg.shape = <<4, 4>> /\ calls[i].ret.status = "ok"
      /\ calls[i].ret.value.shape = <<8, 4>>

\* Every order slot of the coefficients a holds one write: slot n the spin
\* transform of order n with the sign (-1)^n, read from slot n - n_start_ind
\* of the Fourier coefficients, and under reality slot -n, n > 0, the
\* conjugated, flipped content of slot +n.
OneWritePerSlot(a, L, N, reality) ==
    \A el \in 0..(L - 1), m \in (1 - L)..(L - 1), n \in (1 - N)..(N - 1) :
        LET e == Coeff(a, L, N, el, m, n)
        IN /\ Len(e) <= 1
           /\ (Abs(m) <= el /\ Abs(n) <= el) <=> e # <<>>
           /\ e # <<>> =>
                IF reality /\ n < 0
                THEN /\ e[1].n = -n /\ e[1].m = -m /\ e[1].el = el
                     /\ e[1].conj /\ e[1].src = -n
                ELSE /\ e[1].n = n /\ e[1].m = m /\ e[1].el = el
                     /\ ~e[1].conj /\ e[1].sgn = Pow1(n)
                     /\ e[1].src = IF reality THEN n ELSE N - 1 + n

\* C21 (as claimed): a Wigner forward on a pixel array of the right shape
\* completes with every order slot N-1+n, |n| <= N-1, written once: by the
\* spin transform for spin -n times (-1)^n, and under reality the slots
\* -n, n > 0, by the derivation from slot +n; an inverse under reality
\* completes having written and read only the slots n >= 0 of fban; and
\* forward_jax, which adds onto a zero array, returns the slots that
\* forward_numpy assigns.
C21_SingleWriterPerOrder ==
    \A i \in CallIdx :
        LET c == calls[i]
            p == c.par
        IN /\ (/\ c.fn \in WignerForwards
               /\ p.sampling \in {"mw", "mwss", "dh"}
               /\ c.arg.shape \in RightPixelShapes(p)
               /\ c.fn = "jax.forward" => p.precomps /\ p.method # "torch")
               => /\ c.ret.status = "ok"
                  /\ c.ret.value.shape = flmn_shape(p.L, p.N)
                  /\ OneWritePerSlot(c.ret.value, p.L, p.N, p.reality)
                  /\ c.fn = "jax.forward" =>
                       forward_jax(c.arg, p.L, p.N, p.nside, p.sampling,
                                   p.reality, p.precomps)
                         = forward_numpy(c.arg, p.L, p.N, p.nside,
                                         p.sampling, p.reality, p.precomps)
           /\ (/\ c.fn = "transform.inverse" /\ p.reality
               /\ p.sampling \in {"mw", "mwss", "dh"}
               /\ c.arg.shape = flmn_shape(p.L, p.N))
               => /\ c.ret.status = "ok"
                  /\ c.ret.value.fft = "irfft"
                  /\ c.ret.value.slots
                       = [k \in 1..p.N |-> <<[n |-> k - 1, sgn |-> Pow1(k - 1)]>>]

====
